---- MODULE Spec2Model ----
(***************************************************************************)
(* Model of the effective-configuration engine of ssenrah                  *)
(* (app/src-tauri/src/schema/merge.rs): compute_effective folds the four   *)
(* scope documents user, project, local, managed with merge_object and     *)
(* then derives the override report from all_paths.                        *)
(*                                                                         *)
(* JSON values are records of one shape [k, n, a, o]: k is the kind,       *)
(* n the number of a scalar, a the elements of an array and o the map of   *)
(* an object (a function from key strings to values).                      *)
(*                                                                         *)
(* A dot-path is a String in the code.  Here it is the sequence of its     *)
(* dot-free chunks and its "." characters, so that the path built from     *)
(* prefix "env" and key "A" and the path of the single key "env.A" are     *)
(* the same value, as the two Strings are in the code.                     *)
(***************************************************************************)
EXTENDS Integers, Sequences, FiniteSets, TLC

\* ------------------------------------------------------------------ bounds

\* Scalars of the input documents are the numbers 1..MaxNum.
MaxNum == 1

\* A buffer handed to atomic_write is BufLen bytes long.
BufLen == 2

\* The clock advances at most MaxTicks times in a run.
MaxTicks == 2

\* The number of agent and skill handlers in one run.
MaxCalls == 3

\* ------------------------------------------------------------- JSON values

JAbsent == [k |-> "none", n |-> 0, a |-> <<>>, o |-> <<>>]
JNull == [k |-> "null", n |-> 0, a |-> <<>>, o |-> <<>>]
JNum(x) == [k |-> "num", n |-> x, a |-> <<>>, o |-> <<>>]
JArr(s) == [k |-> "arr", n |-> 0, a |-> s, o |-> <<>>]
JObj(f) == [k |-> "obj", n |-> 0, a |-> <<>>, o |-> f]

is_null(v) == v.k = "null"
is_object(v) == v.k = "obj"

\* Map::new() / HashMap::new()
EmptyMap == <<>>

\* Map::insert, HashMap::insert
MapInsert(m, key, v) == [x \in (DOMAIN m) \cup {key} |-> IF x = key THEN v ELSE m[x]]

\* Map::remove
MapRemove(m, key) == [x \in (DOMAIN m) \ {key} |-> m[x]]

\* all_paths.entry(path).or_default().push(e)
EntryPush(m, key, e) ==
    MapInsert(m, key, Append(IF key \in DOMAIN m THEN m[key] ELSE <<>>, e))

\* ------------------------------------------------------------------ strings

\* The characters of a key: its dot-free chunks and its dots.
Toks(key) ==
    CASE key = "env.A" -> <<"env", ".", "A">>
      [] OTHER -> <<key>>

\* The first byte of a chunk.  No chunk of the model is a prefix of another
\* and no two that meet in one map start with the same byte (model and
\* mcpServers never meet), so comparing chunk by chunk on the first byte is
\* the byte-wise comparison of the Strings.
Byte(tok) ==
    CASE tok = "." -> 46
      [] tok = "A" -> 65
      [] tok = "B" -> 66
      [] tok = "env" -> 101
      [] tok = "model" -> 109
      [] tok = "mcpServers" -> 109
      [] tok = "q\"k" -> 113
      [] tok = "network" -> 110
      [] tok = "sandbox" -> 115

\* String::cmp(a, b) = Less
RECURSIVE StrLess(_, _)
StrLess(p, q) ==
    IF p = <<>> THEN q # <<>>
    ELSE IF q = <<>> THEN FALSE
    ELSE IF Head(p) = Head(q) THEN StrLess(Tail(p), Tail(q))
    ELSE Byte(Head(p)) < Byte(Head(q))

\* ------------------------------------------------------------ the tables

DEEP_MERGE_FIELDS ==
    { <<"permissions">>, <<"sandbox">>, <<"sandbox", ".", "network">>,
      <<"hooks">>, <<"env">>, <<"attribution">>, <<"spinnerTipsOverride">>,
      <<"spinnerVerbs">>, <<"statusLine">>, <<"fileSuggestion">> }

is_deep_merge_field_Never(path) == FALSE

is_deep_merge_field(path) == path \in DEEP_MERGE_FIELDS

scopes == <<"user", "project", "local", "managed">>

\* -------------------------------------------------------------- the inputs

Obj1(k1, v1) == JObj(k1 :> v1)
Obj2(k1, v1, k2, v2) == JObj((k1 :> v1) @@ (k2 :> v2))

Nums == {JNum(x) : x \in 1..MaxNum}
Leaves == {JNull, JArr(<<1>>)} \cup Nums

\* The documents a scope file may hold (JAbsent: no file).
Docs ==
    {JAbsent}
    \cup {Obj1("model", v) : v \in Leaves}
    \cup {Obj1("env", v) : v \in {JNull, JNum(1)}}
    \cup {Obj1("env", Obj1("A", v)) : v \in Leaves}
    \cup {Obj1("env", Obj1("B", JNum(1)))}
    \cup {Obj2("env", Obj1("A", JNum(1)), "env.A", v) : v \in {JNull, JArr(<<1>>)}}
    \cup {Obj1("sandbox", Obj1("network", Obj1("A", v))) : v \in {JNull, JNum(1)}}
    \cup {Obj1("sandbox", Obj1("network", Obj1("B", JNum(1))))}

\* ------------------------------------------------------------------- state

VARIABLES
    docs,       \* the four inputs: user, project, local, managed
    pc,         \* "merge", "post" or "done"
    idx,        \* the scope the loop of compute_effective is at
    result,     \* the accumulator (settings when done)
    sources,    \* path -> scope name
    all_paths,  \* path -> sequence of <<scope name, value>>
    overrides   \* the override report

mergeVars == <<docs, pc, idx, result, sources, all_paths, overrides>>

\* The atomic writer (io/atomic.rs), its caller and a reader of the files.
VARIABLES
    fs,         \* file name -> [ex, data]: the files of one directory
    aw_pc,      \* where the call of atomic_write is
    aw_path,    \* its argument path
    aw_content, \* its argument content
    aw_before,  \* what the destination held when the call began
    aw_ret,     \* what the last call returned
    seen        \* the last read of a file: its path, what it saw, and where
                \* the call of atomic_write was at that moment

atomicVars == <<fs, aw_pc, aw_path, aw_content, aw_before, aw_ret, seen>>

\* The change watcher (watcher/debounce.rs, watcher/self_write.rs,
\* commands/watcher.rs).
VARIABLES
    now,         \* the clock (Instant::now), in ms
    ticks,       \* how often the clock has advanced
    handle,      \* WatcherState.watcher: 0 (None) or the watcher it holds
    live,        \* the watchers that exist: created and not yet dropped
    self_writes, \* watcher -> its self_writes map, path -> Instant
    wlock,       \* the thread that holds the mutex of WatcherState, or 0
    w_pc,        \* thread -> where it is in subscribe or unsubscribe
    w_new,       \* thread -> the watcher it has created in subscribe
    last_event,  \* the last event a watcher's callback got: the watcher, the
                 \* paths and kind of the event, the age of the map entry of
                 \* each path at that moment, and the file_change events emitted
    last_write,  \* the path of the last successful write RPC
    writes       \* the map of a SelfWriteTracker

watchVars == <<now, ticks, handle, live, self_writes, wlock, w_pc, w_new,
               last_event, last_write, writes>>

\* The RPC handlers and the project root they share (lib.rs, commands/*.rs).
VARIABLES
    project_root, \* AppState.project_root: "none" or the root path
    plock,        \* the thread that holds the mutex of project_root, or 0
    rpc,          \* thread -> the call it runs: [pc, name, scope, result],
                  \* and for a write seen step by step its path and bytes
    dirty         \* area -> whether a handler has created, changed or
                  \* removed a file there

rpcVars == <<project_root, plock, rpc, dirty>>

\* The handler compute_effective_config (commands/effective.rs) and what it
\* reads.
VARIABLES
    target_os,   \* the platform the program is built for
    scope_files, \* scope (1..4) -> the settings file at the path of the scope
    eff_ret      \* what compute_effective_config returned: "none" (not yet),
                 \* "ok" or the name of the error

effVars == <<target_os, scope_files, eff_ret>>

\* The files the handlers read and write, seen a whole handler at a time
\* (commands/settings.rs, commands/mcp.rs, commands/agents.rs,
\* commands/skills.rs).
VARIABLES
    disk,    \* path -> the file there
    dirs,    \* the directories that exist
    call,    \* the last handler that ran: its name, arguments and return
             \* (or the last rename, the last event of the watcher)
    written  \* what the last successful write put into a file with nothing
             \* in between: by scope for the settings, one document for the
             \* agent file

storeVars == <<disk, dirs, call, written>>

\* The three mutexes and the threads that take them (commands/watcher.rs,
\* watcher/debounce.rs, commands/*.rs).
VARIABLES
    holder,  \* mutex -> the thread that holds it, or 0
    th,      \* thread -> the handler or callback it runs, where it is in
             \* it and how many of its mutexes it has taken
    started  \* how many handlers and callbacks have begun

lockVars == <<holder, th, started>>

vars == <<mergeVars, atomicVars, watchVars, rpcVars, effVars, storeVars, lockVars>>

\* What an action of one component leaves alone.
notMerge == <<atomicVars, watchVars, rpcVars, effVars, storeVars, lockVars>>
notAtomic == <<mergeVars, watchVars, rpcVars, effVars, storeVars, lockVars>>
notWatch == <<mergeVars, atomicVars, rpcVars, effVars, storeVars, lockVars>>
notRpc == <<mergeVars, atomicVars, watchVars, effVars, storeVars, lockVars>>
notStore == <<mergeVars, atomicVars, watchVars, effVars, lockVars>>

\* ------------------------------------------------------------- the files

\* A path that names no file, and a file with its bytes.
Missing == [ex |-> FALSE, data |-> <<>>]
File(d) == [ex |-> TRUE, data |-> d]

\* A path is the pair of its stem and its extension.
with_extension_Same(path, ext) == path

\* Path::with_extension
with_extension(path, ext) == <<path[1], ext>>

\* The settings file of a scope (resolve_settings_path).
ScopeFiles == {<<"settings", "json">>}

\* The paths atomic_write is called with: the settings file and a file
\* name of the caller's choice (write_agent, write_skill_file).
AwPaths == ScopeFiles \cup {<<"notes", "ssenrah-tmp">>}

tmp_path(path) == with_extension(path, "ssenrah-tmp")

Files == AwPaths \cup {tmp_path(p) : p \in AwPaths}

\* The buffers a caller writes.
Bufs == {[i \in 1..BufLen |-> b] : b \in {1, 2}}

\* fs::remove_file
remove_file(f, path) == [f EXCEPT ![path] = Missing]

\* A rename that publishes nothing.
rename_Nop(f, from, to) == f

\* fs::rename: the destination becomes the file of from, from is gone.
rename(f, from, to) ==
    IF from = to THEN f ELSE [f EXCEPT ![to] = f[from], ![from] = Missing]

\* The atomic writer is not part of the run.
AtomicOff ==
    /\ fs = [p \in Files |-> Missing]
    /\ aw_pc = "off"
    /\ aw_path = <<"settings", "json">>
    /\ aw_content = <<>>
    /\ aw_before = Missing
    /\ aw_ret = "none"
    /\ seen = [path |-> <<"settings", "json">>, data |-> Missing, at |-> "none"]

\* ----------------------------------------------------------- the watcher

\* Duration::from_millis(200): the suppression window.
SUPPRESS_MS == 200

\* Duration::from_secs(1), in ms: the age at which record drops an entry.
GC_MS == 1000

Threads == {1, 2}
Watchers == {1, 2}

\* The paths of watched files.
WPaths == {"settings.json", "CLAUDE.md"}

NoEvent == [w |-> 0, paths |-> <<>>, kind |-> "none", ages |-> <<>>, out |-> <<>>]
NoWrite == "none"

\* The change watcher is not part of the run.
WatchOff ==
    /\ now = 0
    /\ ticks = 0
    /\ handle = 0
    /\ live = {}
    /\ self_writes = [w \in Watchers |-> EmptyMap]
    /\ wlock = 0
    /\ w_pc = [t \in Threads |-> "off"]
    /\ w_new = [t \in Threads |-> 0]
    /\ last_event = NoEvent
    /\ last_write = NoWrite
    /\ writes = EmptyMap

\* ---------------------------------------------------------- the handlers

\* The directories a project may be opened at.
Roots == {"/a", "/b"}

\* Where files live: the user's configuration, the project, the machine.
Areas == {"user", "project", "managed"}

IdleCall == [pc |-> "idle", name |-> "none", scope |-> "none", result |-> "none"]

\* No handler is part of the run.
RpcOff ==
    /\ project_root = "none"
    /\ plock = 0
    /\ rpc = [t \in Threads |-> [IdleCall EXCEPT !.pc = "off"]]
    /\ dirty = [a \in Areas |-> FALSE]

\* ------------------------------------------------------- the scope files

\* What std::fs::read_to_string finds at the path of a scope: no file, a
\* file the process may not read, or a file and its text.
NoFile == [st |-> "missing", text |-> ""]
Locked == [st |-> "denied", text |-> ""]
Text(s) == [st |-> "file", text |-> s]

\* The texts that are JSON (RFC 8259), and one that is not.
JsonTexts == {"null", "[1]", "{\"model\":1}", "{\"model\":[1]}",
              "{\"env\":{\"A\":1}}", "{\"env\":{\"A\":null}}"}
Texts == JsonTexts \cup {"{"}

ScopeFileStates == {NoFile, Locked} \cup {Text(s) : s \in Texts}

\* cfg!(target_os = ..)
Platforms == {"macos", "linux", "windows"}

\* compute_effective_config is not part of the run.
EffOff ==
    /\ target_os = "linux"
    /\ scope_files = [i \in 1..4 |-> NoFile]
    /\ eff_ret = "off"

\* No handler has run.
NoCall == [name |-> "none", scope |-> "none", result |-> "none", value |-> JAbsent]

\* The handlers that work on whole files are not part of the run.
StoreOff ==
    /\ disk = EmptyMap
    /\ dirs = {}
    /\ call = NoCall
    /\ written = EmptyMap

\* The mutexes: of WatcherState.watcher, of AppState.project_root and of
\* the self_writes map of the watcher.
Mutexes == {"watcher", "root", "self_writes"}

\* The thread notify runs the callback of the watcher on.
CallbackThreads == {3}

LockThreads == Threads \cup CallbackThreads

NoJob == [pc |-> "idle", name |-> "none", held |-> 0]

\* No thread takes a mutex.
LockOff ==
    /\ holder = [m \in Mutexes |-> 0]
    /\ th = [t \in LockThreads |-> [NoJob EXCEPT !.pc = "off"]]
    /\ started = 0

\* ------------------------------------------------------------ merge_object

\* The keys of a map in the order the loop visits them: ascending or
\* descending by String order.
RECURSIVE KeySeq(_, _)
KeySeq(S, ord) ==
    IF S = {} THEN <<>>
    ELSE LET first == CHOOSE x \in S : \A y \in S \ {x} :
                          IF ord = "asc" THEN StrLess(Toks(x), Toks(y))
                          ELSE StrLess(Toks(y), Toks(x))
         IN <<first>> \o KeySeq(S \ {first}, ord)

path_of(prefix, key) ==
    IF prefix = <<>> THEN Toks(key) ELSE prefix \o <<".">> \o Toks(key)

\* The loop of merge_object over the keys ks still to visit; ord is the
\* iteration order of the maps.
RECURSIVE merge_loop(_, _, _, _, _, _, _, _)
merge_loop(ks, res, source, scope_name, prefix, srcs, paths, ord) ==
    IF ks = <<>> THEN [result |-> res, sources |-> srcs, all_paths |-> paths]
    ELSE
      LET key == Head(ks)
          value == source[key]
          path == path_of(prefix, key)
      IN
        IF is_null(value) THEN
            merge_loop(Tail(ks), MapRemove(res, key), source, scope_name, prefix,
                       MapInsert(srcs, path, scope_name),
                       EntryPush(paths, path, <<scope_name, value>>), ord)
        ELSE IF /\ is_deep_merge_field(path)
                /\ is_object(value)
                /\ key \in DOMAIN res
                /\ is_object(res[key])
        THEN
            LET sub == merge_loop(KeySeq(DOMAIN value.o, ord), res[key].o, value.o,
                                  scope_name, path, srcs, paths, ord)
            IN merge_loop(Tail(ks), MapInsert(res, key, JObj(sub.result)), source,
                          scope_name, prefix, sub.sources, sub.all_paths, ord)
        ELSE
            merge_loop(Tail(ks), MapInsert(res, key, value), source, scope_name, prefix,
                       MapInsert(srcs, path, scope_name),
                       EntryPush(paths, path, <<scope_name, value>>), ord)

merge_object(res, source, scope_name, prefix, srcs, paths, ord) ==
    merge_loop(KeySeq(DOMAIN source, ord), res, source, scope_name, prefix,
               srcs, paths, ord)

\* --------------------------------------------------------------- post-pass

\* One Override, or JAbsent when the path has a single entry (filter_map).
override_of(path, entries) ==
    IF Len(entries) > 1
    THEN [path |-> path,
          effective_scope |-> entries[Len(entries)][1],
          overridden_scopes |-> [i \in 1..(Len(entries) - 1) |-> entries[i][1]],
          effective_value |-> entries[Len(entries)][2]]
    ELSE JAbsent

\* all_paths.iter().filter_map(..).collect(): the paths S in hash order ord.
RECURSIVE collect_overrides(_, _, _)
collect_overrides(paths, S, ord) ==
    IF S = {} THEN <<>>
    ELSE LET p == CHOOSE x \in S : \A y \in S \ {x} :
                      IF ord = "asc" THEN StrLess(x, y) ELSE StrLess(y, x)
             o == override_of(p, paths[p])
         IN (IF o = JAbsent THEN <<>> ELSE <<o>>)
            \o collect_overrides(paths, S \ {p}, ord)

\* Insert o into the sorted sequence s after every element not greater.
RECURSIVE insert_by_path(_, _)
insert_by_path(s, o) ==
    IF s = <<>> THEN <<o>>
    ELSE IF StrLess(o.path, Head(s).path) THEN <<o>> \o s
    ELSE <<Head(s)>> \o insert_by_path(Tail(s), o)

\* overrides.sort_by(|a, b| a.path.cmp(&b.path)): a stable sort.
RECURSIVE sort_by_path(_)
sort_by_path(s) ==
    IF s = <<>> THEN <<>>
    ELSE insert_by_path(sort_by_path(SubSeq(s, 1, Len(s) - 1)), s[Len(s)])

compute_overrides_NoSort(paths, ord) == collect_overrides(paths, DOMAIN paths, ord)

compute_overrides(paths, ord) ==
    sort_by_path(collect_overrides(paths, DOMAIN paths, ord))

\* ----------------------------------------------------------------- actions

Orders == {"asc", "desc"}

Init ==
    /\ LockOff
    /\ docs \in [1..4 -> Docs]
    /\ pc = "merge"
    /\ idx = 1
    /\ result = EmptyMap
    /\ sources = EmptyMap
    /\ all_paths = EmptyMap
    /\ overrides = <<>>
    /\ AtomicOff
    /\ WatchOff
    /\ RpcOff
    /\ EffOff
    /\ StoreOff

Advance ==
    /\ idx' = IF idx < 4 THEN idx + 1 ELSE idx
    /\ pc' = IF idx < 4 THEN "merge" ELSE "post"

\* One turn of the loop over scopes for a scope whose document is an object.
MergeScope ==
    /\ pc = "merge"
    /\ is_object(docs[idx])
    /\ \E ord \in Orders :
         LET m == merge_object(result, docs[idx].o, scopes[idx], <<>>,
                               sources, all_paths, ord)
         IN /\ result' = m.result
            /\ sources' = m.sources
            /\ all_paths' = m.all_paths
    /\ Advance
    /\ UNCHANGED <<docs, overrides>>
    /\ UNCHANGED notMerge

\* One turn of the loop for a scope that is None or not an object.
SkipScope ==
    /\ pc = "merge"
    /\ ~is_object(docs[idx])
    /\ Advance
    /\ UNCHANGED <<docs, result, sources, all_paths, overrides>>
    /\ UNCHANGED notMerge

\* The override report and its sort.
PostPass ==
    /\ pc = "post"
    /\ \E ord \in Orders : overrides' = compute_overrides(all_paths, ord)
    /\ pc' = "done"
    /\ UNCHANGED <<docs, idx, result, sources, all_paths>>
    /\ UNCHANGED notMerge

Next == MergeScope \/ SkipScope \/ PostPass

Spec == Init /\ [][Next]_vars

\* ------------------------------------------------- reading the documents

Settings == JObj(result)

\* The value of v at the key sequence loc, JAbsent when there is none.
RECURSIVE At(_, _)
At(v, loc) ==
    IF loc = <<>> THEN v
    ELSE IF is_object(v) /\ Head(loc) \in DOMAIN v.o THEN At(v.o[Head(loc)], Tail(loc))
    ELSE JAbsent

\* The key sequences of the object keys of v, at every depth.
RECURSIVE LocsOf(_)
LocsOf(v) ==
    IF ~is_object(v) THEN {}
    ELSE UNION {{<<key>>} \cup {<<key>> \o l : l \in LocsOf(v.o[key])} : key \in DOMAIN v.o}

AllLocs == UNION {LocsOf(docs[i]) : i \in 1..4}

\* The dot-path merge_object builds for a key sequence.
RECURSIVE LocPath(_)
LocPath(loc) ==
    IF Len(loc) = 1 THEN Toks(loc[1])
    ELSE path_of(LocPath(SubSeq(loc, 1, Len(loc) - 1)), loc[Len(loc)])

Parent(loc) == SubSeq(loc, 1, Len(loc) - 1)
Prefixes(loc) == {SubSeq(loc, 1, n) : n \in 1..Len(loc)}
Ancestors(loc) == Prefixes(loc) \ {loc}

\* A dot-path of the deep-merge table.
IsDeepPath(p) == p \in DEEP_MERGE_FIELDS

DeepLocs == {c \in AllLocs : IsDeepPath(LocPath(c))}

\* The scopes whose document has a value (null included) at loc.
Mentioners(loc) == {i \in 1..4 : At(docs[i], loc) # JAbsent}
\* The scopes whose document has a value other than null at loc.
Suppliers(loc) == {i \in Mentioners(loc) : ~is_null(At(docs[i], loc))}

Highest(S) == CHOOSE i \in S : \A j \in S : j <= i

\* The members of S, a set of scopes, as scope names in precedence order.
RECURSIVE NamesInOrder(_)
NamesInOrder(S) ==
    IF S = {} THEN <<>>
    ELSE LET i == CHOOSE x \in S : \A y \in S : x <= y
         IN <<scopes[i]>> \o NamesInOrder(S \ {i})

Range(s) == {s[i] : i \in DOMAIN s}

RecordsFor(p) == {j \in 1..Len(overrides) : overrides[j].path = p}

\* The accumulator, sources and all_paths after the first n scopes.
RECURSIVE fold(_)
fold(n) ==
    IF n = 0 THEN [result |-> EmptyMap, sources |-> EmptyMap, all_paths |-> EmptyMap]
    ELSE LET s == fold(n - 1)
         IN IF is_object(docs[n])
            THEN merge_object(s.result, docs[n].o, scopes[n], <<>>,
                              s.sources, s.all_paths, "asc")
            ELSE s

\* No other key sequence of the inputs has the dot-path of loc.
Unambiguous(loc) == \A l \in AllLocs : LocPath(l) = LocPath(loc) => l = loc

\* In every scope, every ancestor of loc that is there is an object.
AncestorsAreObjects(loc) ==
    \A a \in Ancestors(loc) : \A i \in Mentioners(a) : is_object(At(docs[i], a))

\* The number of scopes the loop has been through.
Applied == IF pc = "merge" THEN idx - 1 ELSE 4

TopKeys == {loc[1] : loc \in {l \in AllLocs : Len(l) = 1}}

KeysAt(c) == UNION {DOMAIN At(docs[i], c).o : i \in Mentioners(c)}

\* Applying scope h, merge_object recurses into the container at loc.
DeepMergedBy(h, loc) ==
    \A a \in Prefixes(loc) :
        /\ IsDeepPath(LocPath(a))
        /\ is_object(At(docs[h], a))
        /\ is_object(At(JObj(fold(h - 1).result), a))

ScopeIndex(name) == CHOOSE i \in 1..4 : scopes[i] = name

RECURSIVE NoNull(_)
NoNull(v) ==
    /\ ~is_null(v)
    /\ is_object(v) => \A key \in DOMAIN v.o : NoNull(v.o[key])

\* ==================================================================== C1

C1_Body(key) ==
    LET M == Mentioners(<<key>>)
        p == Toks(key)
    IN (M # {} /\ Suppliers(<<key>>) = M) =>
         LET h == Highest(M)
         IN /\ key \in DOMAIN result
            /\ result[key] = docs[h].o[key]
            /\ p \in DOMAIN sources
            /\ sources[p] = scopes[h]
            /\ Cardinality(M) >= 2 =>
                 /\ Cardinality(RecordsFor(p)) = 1
                 /\ \A j \in RecordsFor(p) :
                      /\ overrides[j].effective_scope = scopes[h]
                      /\ overrides[j].overridden_scopes = NamesInOrder(M \ {h})

\* C1: replace precedence.  For every top-level key that is not a deep-merge
\* path and that every scope naming it gives a non-null value, settings holds
\* the value of the highest such scope, sources names that scope, and with two
\* or more such scopes there is one override for the key, with that scope as
\* effective_scope and the lower ones, in precedence order, as
\* overridden_scopes.
C1_ReplacePrecedence ==
    pc = "done" => \A key \in TopKeys : ~IsDeepPath(Toks(key)) => C1_Body(key)

\* ==================================================================== C2

C2_Body(c) ==
    LET M == Mentioners(c)
        S == At(Settings, c)
        top(key) == Highest(Mentioners(c \o <<key>>))
    IN (/\ Cardinality(M) >= 2
        /\ \A i \in M : is_object(At(docs[i], c))
        /\ AncestorsAreObjects(c)) =>
         /\ is_object(S)
         /\ DOMAIN S.o = {key \in KeysAt(c) : ~is_null(At(docs[top(key)], c \o <<key>>))}
         /\ \A key \in DOMAIN S.o :
              ~IsDeepPath(LocPath(c \o <<key>>)) =>
                 S.o[key] = At(docs[top(key)], c \o <<key>>)

\* C2: deep merge.  When two or more scopes supply an object at a deep-merge
\* path c (and no scope anything but an object there or above it), settings at
\* c is an object whose keys are the union of the scopes' keys at c minus the
\* keys whose highest naming scope gave null, and every remaining key that is
\* not itself a deep-merge path holds the value, arrays whole, of the highest
\* scope that names it.
C2_DeepMergeUnion ==
    pc = "done" => \A c \in DeepLocs : C2_Body(c)

\* ==================================================================== C3

C3_Body(loc) ==
    LET M == Mentioners(loc)
        h == Highest(M)
        p == LocPath(loc)
    IN (/\ is_null(At(docs[h], loc))
        /\ (Len(loc) = 1 \/ DeepMergedBy(h, Parent(loc)))) =>
         /\ At(Settings, loc) = JAbsent
         /\ p \in DOMAIN sources
         /\ sources[p] = scopes[h]
         /\ p \in DOMAIN all_paths
         /\ all_paths[p][Len(all_paths[p])] = <<scopes[h], JNull>>
         /\ Suppliers(loc) # {} =>
               \E j \in RecordsFor(p) : overrides[j].effective_value = JNull

\* C3: null-as-delete bookkeeping.  For every path that is a top-level key or
\* a key under a container being deep-merged, if the highest scope naming it
\* gives null then the path is absent from settings, sources names that scope,
\* the last all_paths entry is (that scope, null), and if a lower scope also
\* gave the path a value there is an override for it with effective_value
\* null.  Stated here for the paths that only one key sequence spells.
C3_NullBookkeeping ==
    pc = "done" => \A loc \in AllLocs : Unambiguous(loc) => C3_Body(loc)

\* ==================================================================== C4

C4_Body(key) ==
    LET S == Suppliers(<<key>>)
        p == Toks(key)
    IN /\ p \in DOMAIN sources
       /\ S # {}
       /\ sources[p] = scopes[Highest(S)]

\* C4: source attribution of top-level keys.  For every top-level key present
\* in settings, the deep-merge containers included, sources has an entry and
\* it names the highest scope that supplied a non-null value at the key.
\* Stated here for the keys whose dot-path no other key sequence spells.
C4_TopLevelSources ==
    pc = "done" => \A key \in DOMAIN result : Unambiguous(<<key>>) => C4_Body(key)

\* ==================================================================== C5

\* C5: the override post-pass.  overrides holds exactly one record for each
\* path whose all_paths list has two or more entries and none for any other
\* path; a record's effective_scope and effective_value are those of the last
\* entry, its overridden_scopes the scopes of the earlier entries in their
\* order; the records are in strictly ascending order of path.
C5_OverridePostPass ==
    pc = "done" =>
      /\ \A p \in DOMAIN all_paths :
           Len(all_paths[p]) >= 2 => Cardinality(RecordsFor(p)) = 1
      /\ \A j \in 1..Len(overrides) :
           LET o == overrides[j]
           IN /\ o.path \in DOMAIN all_paths
              /\ LET e == all_paths[o.path]
                 IN /\ Len(e) >= 2
                    /\ o.effective_scope = e[Len(e)][1]
                    /\ o.effective_value = e[Len(e)][2]
                    /\ o.overridden_scopes = [i \in 1..(Len(e) - 1) |-> e[i][1]]
      /\ \A j \in 1..(Len(overrides) - 1) :
           StrLess(overrides[j].path, overrides[j + 1].path)

\* The report is done, holds two records or more, one of them with two
\* overridden scopes, and some path has a single entry and so no record.
C5_Witness ==
    /\ pc = "done"
    /\ Len(overrides) >= 2
    /\ \E j \in 1..Len(overrides) : Len(overrides[j].overridden_scopes) >= 2
    /\ \E p \in DOMAIN all_paths : Len(all_paths[p]) = 1

\* ==================================================================== C6

C6_Body(loc) ==
    LET S == Suppliers(loc)
        p == LocPath(loc)
    IN (/\ Cardinality(S) >= 2
        /\ Mentioners(loc) = S
        /\ ~IsDeepPath(p)
        /\ \A a \in Ancestors(loc) : IsDeepPath(LocPath(a))
        /\ AncestorsAreObjects(loc)) =>
         \E j \in RecordsFor(p) :
            /\ overrides[j].effective_scope = scopes[Highest(S)]
            /\ \A i \in S \ {Highest(S)} :
                 scopes[i] \in Range(overrides[j].overridden_scopes)

\* C6: completeness of the override report.  Whenever two or more scopes set
\* a value at the same dot-path, a top-level key or a leaf beneath deep-merge
\* containers, overrides has a record for the path with the highest supplying
\* scope as effective_scope and every lower supplying scope in
\* overridden_scopes.  Stated here for the paths that only one key sequence
\* spells.
C6_OverridesComplete ==
    pc = "done" => \A loc \in AllLocs : Unambiguous(loc) => C6_Body(loc)

\* ==================================================================== C7

\* C7: every record of overrides names at least two distinct scopes in
\* overridden_scopes and effective_scope together, and no scope twice.
C7_DistinctScopes ==
    pc = "done" =>
      \A j \in 1..Len(overrides) :
         LET all == Append(overrides[j].overridden_scopes, overrides[j].effective_scope)
         IN /\ Cardinality(Range(all)) >= 2
            /\ Cardinality(Range(all)) = Len(all)

\* ==================================================================== C8

C8_Body(p) ==
    LET i == ScopeIndex(sources[p])
        locs == {l \in AllLocs : LocPath(l) = p}
    IN \/ \E l \in locs :
            /\ At(Settings, l) # JAbsent
            /\ \/ At(Settings, l) = At(docs[i], l)
               \/ /\ IsDeepPath(p)
                  /\ is_object(At(Settings, l))
                  /\ is_object(At(docs[i], l))
       \/ /\ \A l \in locs : At(Settings, l) = JAbsent
          /\ \E l \in locs : is_null(At(docs[i], l))

\* C8: no stale attribution.  Every path of sources is in settings with the
\* value its scope supplied (for a merged container: an object that scope
\* supplied an object to), or it is absent from settings and its scope gave it
\* null.  Stated here for the paths that only one key sequence spells.
C8_NoStaleSources ==
    pc = "done" =>
      \A p \in DOMAIN sources :
         (\A l \in AllLocs : LocPath(l) = p => Unambiguous(l)) => C8_Body(p)

\* ==================================================================== C9

C9_Preserved(c, mentioned) ==
    LET old == At(Settings, c).o
        new == At(JObj(result'), c)
    IN /\ is_object(new)
       /\ \A key \in (DOMAIN old) \ mentioned : key \in DOMAIN new.o

\* C9 as claimed: at a deep-merge path c where settings holds an object,
\* whatever value the scope being applied supplies at c, the container stays
\* and every key under c that the scope does not mention is still there.
C9_ContainerNeverReplaced ==
    [][(pc = "merge" /\ is_object(docs[idx])) =>
         \A c \in DeepLocs :
            (At(docs[idx], c) # JAbsent /\ is_object(At(Settings, c))) =>
               C9_Preserved(c, DOMAIN At(docs[idx], c).o)]_vars

\* C9 amended: at a deep-merge path c where settings holds an object, when
\* the scope being applied supplies an object at c, the container stays and
\* every key under c that the scope does not mention is still there.
C9_ContainerPreservedByObject ==
    [][(pc = "merge" /\ is_object(docs[idx])) =>
         \A c \in DeepLocs :
            (is_object(At(docs[idx], c)) /\ is_object(At(Settings, c))) =>
               C9_Preserved(c, DOMAIN At(docs[idx], c).o)]_vars

\* The last scope applied gave an object at a deep-merge path where settings
\* held an object, and a key it does not mention is still in settings.
C9_Witness ==
    /\ Applied >= 2
    /\ \E c \in DeepLocs :
         LET before == At(JObj(fold(Applied - 1).result), c)
             given == At(docs[Applied], c)
         IN /\ is_object(before)
            /\ is_object(given)
            /\ \E key \in (DOMAIN before.o) \ (DOMAIN given.o) :
                 key \in DOMAIN At(Settings, c).o

\* =================================================================== C10

\* C10: null never survives.  A key that its highest naming scope gives null,
\* at any depth, is absent from settings, and no object key of settings at
\* any depth maps to null.
C10_NullNeverSurvives ==
    pc = "done" =>
      /\ \A loc \in AllLocs :
           is_null(At(docs[Highest(Mentioners(loc))], loc)) => At(Settings, loc) = JAbsent
      /\ NoNull(Settings)

\* =================================================================== C11

\* C11: compute_effective is deterministic.  Whatever order merge_object
\* visits the keys of a scope document in and whatever order the post-pass
\* iterates all_paths in, the finished settings, sources and overrides are
\* the ones of the run that visits every map in ascending key order.
C11_Deterministic ==
    pc = "done" =>
      /\ result = fold(4).result
      /\ sources = fold(4).sources
      /\ overrides = compute_overrides(fold(4).all_paths, "asc")

\* ============================================================ atomic_write

\* The merge engine is not part of the run.
MergeOff ==
    /\ docs = [i \in 1..4 |-> JAbsent]
    /\ pc = "off"
    /\ idx = 1
    /\ result = EmptyMap
    /\ sources = EmptyMap
    /\ all_paths = EmptyMap
    /\ overrides = <<>>

\* Each destination is missing or holds an earlier buffer; no call is on.
InitAtomic ==
    /\ LockOff
    /\ MergeOff
    /\ WatchOff
    /\ RpcOff
    /\ EffOff
    /\ StoreOff
    /\ fs \in {f \in [Files -> {Missing} \cup {File(b) : b \in Bufs}] :
                 \A p \in Files \ AwPaths : f[p] = Missing}
    /\ aw_pc = "idle"
    /\ aw_path = <<"settings", "json">>
    /\ aw_content = <<>>
    /\ aw_before = Missing
    /\ aw_ret = "none"
    /\ seen = [path |-> <<"settings", "json">>, data |-> Missing, at |-> "none"]

\* A write RPC calls atomic_write(path, content).
AwCall ==
    /\ aw_pc = "idle"
    /\ \E p \in AwPaths, c \in Bufs :
         /\ aw_path' = p
         /\ aw_content' = c
         /\ aw_before' = fs[p]
    /\ aw_pc' = "create"
    /\ aw_ret' = "none"
    /\ UNCHANGED <<fs, seen>>
    /\ UNCHANGED notAtomic

\* fs::write(&tmp_path, content) creates the file or truncates it ...
AwCreate ==
    /\ aw_pc = "create"
    /\ fs' = [fs EXCEPT ![tmp_path(aw_path)] = File(<<>>)]
    /\ aw_pc' = "write"
    /\ UNCHANGED <<aw_path, aw_content, aw_before, aw_ret, seen>>
    /\ UNCHANGED notAtomic

\* ... and writes the bytes.
AwWrite ==
    /\ aw_pc = "write"
    /\ LET tmp == tmp_path(aw_path)
           n == Len(fs[tmp].data)
       IN /\ fs' = [fs EXCEPT ![tmp] = File(Append(fs[tmp].data, aw_content[n + 1]))]
          /\ aw_pc' = IF n + 1 = Len(aw_content) THEN "rename" ELSE "write"
    /\ UNCHANGED <<aw_path, aw_content, aw_before, aw_ret, seen>>
    /\ UNCHANGED notAtomic

\* fs::write fails, before or after it created the file: the branch of
\* lines 9-15 removes the temp file and returns WriteFailed.
AwWriteFails ==
    /\ aw_pc \in {"create", "write"}
    /\ fs' = remove_file(fs, tmp_path(aw_path))
    /\ aw_ret' = "write_failed"
    /\ aw_pc' = "idle"
    /\ UNCHANGED <<aw_path, aw_content, aw_before, seen>>
    /\ UNCHANGED notAtomic

\* fs::rename(&tmp_path, path) succeeds and the call returns Ok.
AwRename ==
    /\ aw_pc = "rename"
    /\ fs' = rename(fs, tmp_path(aw_path), aw_path)
    /\ aw_ret' = "ok"
    /\ aw_pc' = "idle"
    /\ UNCHANGED <<aw_path, aw_content, aw_before, seen>>
    /\ UNCHANGED notAtomic

\* fs::rename fails: the branch of lines 18-24.
AwRenameFails ==
    /\ aw_pc = "rename"
    /\ fs' = remove_file(fs, tmp_path(aw_path))
    /\ aw_ret' = "write_failed"
    /\ aw_pc' = "idle"
    /\ UNCHANGED <<aw_path, aw_content, aw_before, seen>>
    /\ UNCHANGED notAtomic

\* The process dies inside the call; the files stay as they are.
Crash ==
    /\ aw_pc \in {"create", "write", "rename"}
    /\ aw_pc' = "crashed"
    /\ UNCHANGED <<fs, aw_path, aw_content, aw_before, aw_ret, seen>>
    /\ UNCHANGED notAtomic

\* The application is started again.
Restart ==
    /\ aw_pc = "crashed"
    /\ aw_pc' = "idle"
    /\ UNCHANGED <<fs, aw_path, aw_content, aw_before, aw_ret, seen>>
    /\ UNCHANGED notAtomic

\* Some process reads the file at path p (fs::read_to_string).
ReadFile ==
    /\ \E p \in AwPaths : seen' = [path |-> p, data |-> fs[p], at |-> aw_pc]
    /\ UNCHANGED <<fs, aw_pc, aw_path, aw_content, aw_before, aw_ret>>
    /\ UNCHANGED notAtomic

NextAtomic ==
    \/ AwCall
    \/ AwCreate
    \/ AwWrite
    \/ AwWriteFails
    \/ AwRename
    \/ AwRenameFails
    \/ Crash
    \/ Restart
    \/ ReadFile

SpecAtomic == InitAtomic /\ [][NextAtomic]_vars

\* =================================================================== C12

\* The last call of atomic_write has returned and nothing ran since.
Returned(r) == aw_pc = "idle" /\ aw_ret = r

\* C12: when atomic_write returns success the destination holds exactly
\* content; when it returns write_failed the destination holds what it held
\* before the call (or is still missing) and the sibling temp path names no
\* file.
C12_AtomicWriteContract ==
    /\ Returned("ok") => fs[aw_path] = File(aw_content)
    /\ Returned("write_failed") =>
         /\ fs[aw_path] = aw_before
         /\ fs[<<aw_path[1], "ssenrah-tmp">>] = Missing

\* =================================================================== C13

\* A call of atomic_write has begun and has not returned (the process may
\* have died inside it).
InCall == aw_pc \in {"create", "write", "rename", "crashed"}

\* C13: whole-file atomicity for readers.  A read of a scope's settings file
\* made while a write to that file is under way, at any point of it, failed
\* or crashed included, sees the complete content the file had before the
\* write or the complete new content.
C13_ReadersSeeWholeFiles ==
    [][(ReadFile /\ InCall /\ aw_path \in ScopeFiles /\ seen'.path = aw_path)
         => seen'.data \in {aw_before, File(aw_content)}]_vars

\* The process died between the temp-file write and the rename, and a read
\* of the settings file made after that saw the previous content.
C13_Witness ==
    /\ aw_pc = "crashed"
    /\ aw_path \in ScopeFiles
    /\ fs[tmp_path(aw_path)] = File(aw_content)
    /\ aw_before # File(aw_content)
    /\ seen = [path |-> aw_path, data |-> aw_before, at |-> "crashed"]

\* ============================================================= the watcher

\* The steps by which the clock advances.
Deltas == {1, SUPPRESS_MS, GC_MS}

\* The kinds of event notify reports, and the paths one event carries.
EventKinds == {"Modify", "Access"}
EventPaths == {<<"settings.json">>, <<"CLAUDE.md">>, <<"settings.json", "CLAUDE.md">>}

\* time.elapsed() for an Instant taken at time t
elapsed(t) == now - t

suppresses_Inclusive(sw, path) ==
    path \in DOMAIN sw /\ elapsed(sw[path]) <= SUPPRESS_MS

\* if let Some(time) = sw.get(path) { if time.elapsed() < 200 ms { .. } }
suppresses(sw, path) ==
    path \in DOMAIN sw /\ elapsed(sw[path]) < SUPPRESS_MS

\* What time.elapsed() gives the closure for path: -1 when sw.get(path) is None.
age(sw, path) == IF path \in DOMAIN sw THEN elapsed(sw[path]) ELSE -1

\* SelfWriteTracker::is_self_write
is_self_write(path) == suppresses(writes, path)

\* match event.kind
kind_name(k) ==
    CASE k = "Create" -> "created"
      [] k = "Modify" -> "modified"
      [] k = "Remove" -> "deleted"
      [] OTHER -> "none"

\* The closure handed to notify::recommended_watcher: the file_change
\* events it emits for one event, given the map sw.
callback(sw, paths, k) ==
    IF \E i \in 1..Len(paths) : suppresses(sw, paths[i]) THEN <<>>
    ELSE IF kind_name(k) = "none" THEN <<>>
    ELSE [i \in 1..Len(paths) |-> [path |-> paths[i], kind |-> kind_name(k)]]

\* writes.retain(|_, time| time.elapsed() < Duration::from_secs(1))
retain(m) ==
    LET keep == {p \in DOMAIN m : elapsed(m[p]) < GC_MS}
    IN [p \in keep |-> m[p]]

\* No subscription, no call under way, the clock at its origin.
InitWatch ==
    /\ LockOff
    /\ MergeOff
    /\ AtomicOff
    /\ RpcOff
    /\ EffOff
    /\ StoreOff
    /\ now = 0
    /\ ticks = 0
    /\ handle = 0
    /\ live = {}
    /\ self_writes = [w \in Watchers |-> EmptyMap]
    /\ wlock = 0
    /\ w_pc = [t \in Threads |-> "idle"]
    /\ w_new = [t \in Threads |-> 0]
    /\ last_event = NoEvent
    /\ last_write = NoWrite
    /\ writes = EmptyMap

\* Time passes.
Tick ==
    /\ ticks < MaxTicks
    /\ \E d \in Deltas : now' = now + d
    /\ ticks' = ticks + 1
    /\ UNCHANGED <<handle, live, self_writes, wlock, w_pc, w_new,
                   last_event, last_write, writes>>
    /\ UNCHANGED notWatch

\* What dropping the watcher in the handle does to the watchers that exist
\* and to their maps.
drop_live == live \ {handle}
drop_maps == [w \in Watchers |-> IF w = handle THEN EmptyMap ELSE self_writes[w]]

\* subscribe_file_changes: watcher_state.watcher.lock()
SubscribeLock(t) ==
    /\ w_pc[t] = "idle"
    /\ wlock = 0
    /\ wlock' = t
    /\ w_pc' = [w_pc EXCEPT ![t] = "sub_new"]
    /\ UNCHANGED <<now, ticks, handle, live, self_writes, w_new, last_event,
                   last_write, writes>>
    /\ UNCHANGED notWatch

\* DebouncedWatcher::new(app) and the watches: a new watcher exists, with an
\* empty map, beside the one in the handle.
SubscribeNew(t) ==
    /\ w_pc[t] = "sub_new"
    /\ LET w == CHOOSE x \in Watchers \ live : \A y \in Watchers \ live : x <= y
       IN /\ live' = live \cup {w}
          /\ self_writes' = [self_writes EXCEPT ![w] = EmptyMap]
          /\ w_new' = [w_new EXCEPT ![t] = w]
    /\ w_pc' = [w_pc EXCEPT ![t] = "sub_set"]
    /\ UNCHANGED <<now, ticks, handle, wlock, last_event, last_write, writes>>
    /\ UNCHANGED notWatch

\* DebouncedWatcher::new fails: the call returns platform_error.
SubscribeNewFails(t) ==
    /\ w_pc[t] = "sub_new"
    /\ wlock' = 0
    /\ w_pc' = [w_pc EXCEPT ![t] = "idle"]
    /\ UNCHANGED <<now, ticks, handle, live, self_writes, w_new, last_event,
                   last_write, writes>>
    /\ UNCHANGED notWatch

\* *watcher_guard = Some(watcher): the prior watcher is dropped; Ok(()).
SubscribeSet(t) ==
    /\ w_pc[t] = "sub_set"
    /\ handle' = w_new[t]
    /\ live' = drop_live
    /\ self_writes' = drop_maps
    /\ w_new' = [w_new EXCEPT ![t] = 0]
    /\ wlock' = 0
    /\ w_pc' = [w_pc EXCEPT ![t] = "idle"]
    /\ UNCHANGED <<now, ticks, last_event, last_write, writes>>
    /\ UNCHANGED notWatch

\* unsubscribe_file_changes: watcher_state.watcher.lock()
UnsubscribeLock(t) ==
    /\ w_pc[t] = "idle"
    /\ wlock = 0
    /\ wlock' = t
    /\ w_pc' = [w_pc EXCEPT ![t] = "unsub"]
    /\ UNCHANGED <<now, ticks, handle, live, self_writes, w_new, last_event,
                   last_write, writes>>
    /\ UNCHANGED notWatch

\* *watcher_guard = None; Ok(())
UnsubscribeSet(t) ==
    /\ w_pc[t] = "unsub"
    /\ handle' = 0
    /\ live' = drop_live
    /\ self_writes' = drop_maps
    /\ wlock' = 0
    /\ w_pc' = [w_pc EXCEPT ![t] = "idle"]
    /\ UNCHANGED <<now, ticks, w_new, last_event, last_write, writes>>
    /\ UNCHANGED notWatch

\* DebouncedWatcher::record_self_write(path) on the watcher in the handle.
\* (No handler of the application calls it.)
record_self_write(path) ==
    /\ handle # 0
    /\ wlock = 0
    /\ self_writes' = [self_writes EXCEPT
                         ![handle] = MapInsert(self_writes[handle], path, now)]
    /\ UNCHANGED <<now, ticks, handle, live, wlock, w_pc, w_new,
                   last_event, last_write, writes>>
    /\ UNCHANGED notWatch

\* A write RPC (write_settings, write_memory, write_mcp_config, write_agent,
\* write_skill, write_skill_file) writes the file at path and returns Ok.
\* None of them touches WatcherState.
WriteRpc(path) ==
    /\ last_write' = path
    /\ UNCHANGED <<now, ticks, handle, live, self_writes, wlock, w_pc, w_new,
                   last_event, writes>>
    /\ UNCHANGED notWatch

\* notify calls the closure of watcher w with an event of kind k for paths.
Event(w, paths, k) ==
    /\ w \in live
    /\ last_event' = [w |-> w, paths |-> paths, kind |-> k,
                      ages |-> [i \in 1..Len(paths) |-> age(self_writes[w], paths[i])],
                      out |-> callback(self_writes[w], paths, k)]
    /\ UNCHANGED <<now, ticks, handle, live, self_writes, wlock, w_pc, w_new,
                   last_write, writes>>
    /\ UNCHANGED notWatch

\* SelfWriteTracker::record(path)
record(path) ==
    /\ writes' = retain(MapInsert(writes, path, now))
    /\ UNCHANGED <<now, ticks, handle, live, self_writes, wlock, w_pc, w_new,
                   last_event, last_write>>
    /\ UNCHANGED notWatch

\* Subscriptions: two threads call subscribe and unsubscribe while files
\* are written and events arrive.
NextWatch ==
    \/ \E t \in Threads : SubscribeLock(t)
    \/ \E t \in Threads : SubscribeNew(t)
    \/ \E t \in Threads : SubscribeNewFails(t)
    \/ \E t \in Threads : SubscribeSet(t)
    \/ \E t \in Threads : UnsubscribeLock(t)
    \/ \E t \in Threads : UnsubscribeSet(t)
    \/ \E p \in WPaths : WriteRpc(p)
    \/ \E w \in Watchers, ps \in EventPaths, k \in EventKinds : Event(w, ps, k)

SpecWatch == InitWatch /\ [][NextWatch]_vars

\* Suppression: one thread subscribes and unsubscribes, time passes,
\* self-writes are recorded and events arrive.
NextSuppress ==
    \/ Tick
    \/ SubscribeLock(1)
    \/ SubscribeNew(1)
    \/ SubscribeNewFails(1)
    \/ SubscribeSet(1)
    \/ UnsubscribeLock(1)
    \/ UnsubscribeSet(1)
    \/ \E p \in WPaths : record_self_write(p)
    \/ \E w \in Watchers, ps \in EventPaths, k \in EventKinds : Event(w, ps, k)

SpecSuppress == InitWatch /\ [][NextSuppress]_vars

\* A SelfWriteTracker on its own.
NextTracker ==
    \/ Tick
    \/ \E p \in WPaths : record(p)

SpecTracker == InitWatch /\ [][NextTracker]_vars

\* =================================================================== C15

\* C15: self-write suppression end to end.  Whenever a write RPC succeeds
\* while a subscription is active, the path it wrote is recorded with the
\* time of the write in the self-write map of the active watcher (so that
\* the event the write causes within 200 ms is not emitted).
C15_WritesAreRecorded ==
    [][\A p \in WPaths :
         (WriteRpc(p) /\ handle # 0) =>
             /\ p \in DOMAIN self_writes'[handle]
             /\ self_writes'[handle][p] = now]_vars

\* =================================================================== C16

\* The file_change events one event of a reported kind gives when emitted.
Emitted(e) == [i \in 1..Len(e.paths) |-> [path |-> e.paths[i], kind |-> kind_name(e.kind)]]

\* C16 as stated: the suppression window.  With a self-write recorded at
\* time t for path p, an event for p that arrives at a time in
\* [t, t + 200 ms], both ends included, emits nothing, and an event for p (of
\* a kind that is reported) that arrives at t + 201 ms is emitted.
C16_SuppressionWindow ==
    \A i \in 1..Len(last_event.paths) :
      /\ last_event.ages[i] \in 0..SUPPRESS_MS => last_event.out = <<>>
      /\ (last_event.ages[i] = SUPPRESS_MS + 1 /\ Len(last_event.paths) = 1
            /\ kind_name(last_event.kind) # "none")
           => last_event.out = Emitted(last_event)

\* C16, amended: the window is half-open.  An event that carries p and
\* arrives at a time in [t, t + 200 ms), the end excluded, emits nothing; an
\* event that carries only p, is of a reported kind and arrives at
\* t + 200 ms or later is emitted.
C16_HalfOpenWindow ==
    \A i \in 1..Len(last_event.paths) :
      /\ last_event.ages[i] \in 0..(SUPPRESS_MS - 1) => last_event.out = <<>>
      /\ (last_event.ages[i] >= SUPPRESS_MS /\ Len(last_event.paths) = 1
            /\ kind_name(last_event.kind) # "none")
           => last_event.out = Emitted(last_event)

\* An event for a path recorded exactly 200 ms earlier was emitted.
C16_Witness ==
    /\ last_event.ages = <<SUPPRESS_MS>>
    /\ last_event.out # <<>>

\* =================================================================== C17

\* C17: garbage collection of the self-write map.  Immediately after an
\* insertion into the self-write map of the active watcher, the map holds no
\* entry whose timestamp is more than 1 s old.
C17_NoOldEntryAfterInsert ==
    [][\A p \in WPaths :
         record_self_write(p) =>
             \A q \in DOMAIN self_writes'[handle] :
                 elapsed(self_writes'[handle][q]) <= GC_MS]_vars

\* =================================================================== C18

\* C18: single subscription.  At every moment at most one watcher exists
\* that can emit file_change events; when a subscribe has returned Ok
\* exactly one exists, the one in the handle, and when an unsubscribe has
\* returned none exists.
C18_SingleSubscription ==
    /\ Cardinality(live) <= 1
    /\ wlock = 0 => live = (IF handle = 0 THEN {} ELSE {handle})

\* ============================================================ the handlers

\* What a resolver returns: the area of the path, or the name of the error.

\* platform/paths.rs resolve_managed_settings_dir: "none" for None.
resolve_managed_settings_dir ==
    IF target_os = "macos" THEN "/Library/Application Support/ClaudeCode"
    ELSE IF target_os = "linux" THEN "/etc/claude-code"
    ELSE "none"

\* platform/paths.rs resolve_settings_path
resolve_settings_path(scope, root) ==
    CASE scope = "user" -> "user"
      [] scope \in {"project", "local"} -> IF root = "none" THEN "no_project" ELSE "project"
      [] scope = "managed" ->
           IF resolve_managed_settings_dir = "none" THEN "platform_error" ELSE "managed"

\* commands/memory.rs resolve_memory_path
resolve_memory_path(scope, root) ==
    CASE scope = "user" -> "user"
      [] scope \in {"project", "project_root", "local"} ->
           IF root = "none" THEN "no_project" ELSE "project"
      [] OTHER -> "platform_error"

\* commands/mcp.rs resolve_mcp_path
resolve_mcp_path(source, root) ==
    CASE source = "project" -> IF root = "none" THEN "no_project" ELSE "project"
      [] source = "user" -> "user"
      [] source = "managed" ->
           IF resolve_managed_settings_dir = "none" THEN "platform_error" ELSE "managed"
      [] OTHER -> "platform_error"

\* commands/agents.rs resolve_agents_dir
resolve_agents_dir(scope, root) ==
    CASE scope = "user" -> "user"
      [] scope = "project" -> IF root = "none" THEN "no_project" ELSE "project"
      [] OTHER -> "platform_error"

\* commands/skills.rs resolve_skills_dir
resolve_skills_dir(scope, root) ==
    CASE scope = "user" -> "user"
      [] scope = "project" -> IF root = "none" THEN "no_project" ELSE "project"
      [] OTHER -> "platform_error"

SettingsRpcs == {"read_settings", "write_settings"}
MemoryRpcs == {"read_memory", "write_memory"}
McpRpcs == {"read_mcp_config", "write_mcp_config"}
AgentRpcs == {"list_agents", "read_agent", "write_agent", "delete_agent"}
SkillRpcs == {"list_skills", "read_skill", "write_skill", "delete_skill",
              "read_skill_file", "write_skill_file"}
ListRpcs == {"list_agents", "list_skills"}
WriteRpcs == {"write_settings", "write_memory", "write_mcp_config", "write_agent",
              "write_skill", "write_skill_file"}
DeleteRpcs == {"delete_agent", "delete_skill"}

\* The calls a frontend makes: the handler and its scope argument ("both":
\* list_* without a scope; "none": a handler that takes no scope).
Calls ==
    ({"read_settings"} \X {"user", "project", "local", "managed"})
    \cup ({"write_settings"} \X {"user", "project", "local"})
    \cup (MemoryRpcs \X {"user", "project", "project_root", "local"})
    \cup ({"read_mcp_config"} \X {"user", "project", "managed"})
    \cup ({"write_mcp_config"} \X {"user", "project", "managed"})
    \cup ((AgentRpcs \cup SkillRpcs) \X {"user", "project"})
    \cup (ListRpcs \X {"both"})
    \cup ({"ensure_claude_dir", "compute_effective_config", "get_project_info"} \X {"none"})

\* What the handler's path resolution gives for a call.
resolve(name, scope, root) ==
    CASE name \in SettingsRpcs -> resolve_settings_path(scope, root)
      [] name \in MemoryRpcs -> resolve_memory_path(scope, root)
      [] name \in McpRpcs -> resolve_mcp_path(scope, root)
      [] name \in AgentRpcs -> resolve_agents_dir(scope, root)
      [] name \in SkillRpcs -> resolve_skills_dir(scope, root)
      [] name = "ensure_claude_dir" -> IF root = "none" THEN "no_project" ELSE "project"
      [] OTHER -> "user"

\* No call under way, no project open, no file touched.
InitRpc ==
    /\ LockOff
    /\ MergeOff
    /\ AtomicOff
    /\ WatchOff
    /\ EffOff
    /\ StoreOff
    /\ project_root = "none"
    /\ plock = 0
    /\ rpc = [t \in Threads |-> IdleCall]
    /\ dirty = [a \in Areas |-> FALSE]

\* A handler that takes State<AppState> begins: state.project_root.lock().
\* The guard lives until the handler returns.
Lock(t) ==
    /\ rpc[t].pc = "idle"
    /\ plock = 0
    /\ plock' = t
    /\ \E c \in Calls :
         rpc' = [rpc EXCEPT ![t] = [pc |-> "locked", name |-> c[1], scope |-> c[2],
                                    result |-> "none"]]
    /\ UNCHANGED <<project_root, dirty>>
    /\ UNCHANGED notRpc

\* The handler resolves its path: an error ends it (list_* skips the scope
\* and ends with an empty list; get_project_info with no project has
\* nothing to look at), otherwise its file operations come next.
Resolve(t) ==
    /\ rpc[t].pc = "locked"
    /\ LET c == rpc[t]
           r == IF c.name \in ListRpcs /\ c.scope = "both" THEN "user"
                ELSE resolve(c.name, c.scope, project_root)
       IN rpc' = [rpc EXCEPT ![t] =
            IF c.name = "write_mcp_config" /\ c.scope = "managed"
            THEN [c EXCEPT !.pc = "ret", !.result = "platform_error"]
            ELSE IF c.name = "get_project_info" /\ project_root = "none"
            THEN [c EXCEPT !.pc = "ret", !.result = "ok"]
            ELSE IF r \in {"no_project", "platform_error"}
            THEN [c EXCEPT !.pc = "ret",
                           !.result = IF c.name \in ListRpcs THEN "ok" ELSE r]
            ELSE [c EXCEPT !.pc = "io"]]
    /\ UNCHANGED <<project_root, plock, dirty>>
    /\ UNCHANGED notRpc

\* The area whose files the call at its file operations works on.
area_of(c) ==
    IF c.name \in ListRpcs /\ c.scope = "both" THEN "user"
    ELSE resolve(c.name, c.scope, project_root)

\* The file operations of a reading handler (fs::read_to_string,
\* fs::read_dir, Path::exists, Path::is_dir): they succeed or fail.
IoRead(t) ==
    /\ rpc[t].pc = "io"
    /\ rpc[t].name \notin WriteRpcs \cup DeleteRpcs \cup {"ensure_claude_dir", "open_project"}
    /\ \E r \in {"ok", "failed"} :
         rpc' = [rpc EXCEPT ![t] = [rpc[t] EXCEPT !.pc = "ret", !.result = r]]
    /\ UNCHANGED <<project_root, plock, dirty>>
    /\ UNCHANGED notRpc

\* The file operations of a handler that creates, writes or removes
\* (fs::create_dir_all, atomic_write, fs::remove_file, fs::remove_dir_all).
IoWrite(t) ==
    /\ rpc[t].pc = "io"
    /\ rpc[t].name \in WriteRpcs \cup DeleteRpcs \cup {"ensure_claude_dir"}
    /\ rpc' = [rpc EXCEPT ![t] = [rpc[t] EXCEPT !.pc = "ret", !.result = "ok"]]
    /\ dirty' = [dirty EXCEPT ![area_of(rpc[t])] = TRUE]
    /\ UNCHANGED <<project_root, plock>>
    /\ UNCHANGED notRpc

\* The same, failing before anything is on disk: write_failed (or
\* not_found for a delete of nothing).
IoWriteFails(t) ==
    /\ rpc[t].pc = "io"
    /\ rpc[t].name \in WriteRpcs \cup DeleteRpcs \cup {"ensure_claude_dir"}
    /\ rpc' = [rpc EXCEPT ![t] =
                 [rpc[t] EXCEPT !.pc = "ret",
                                !.result = IF rpc[t].name \in DeleteRpcs THEN "not_found"
                                           ELSE "write_failed"]]
    /\ UNCHANGED <<project_root, plock, dirty>>
    /\ UNCHANGED notRpc

\* The handler returns; its guard, if it holds one, is dropped.
Return(t) ==
    /\ rpc[t].pc = "ret"
    /\ plock' = IF plock = t THEN 0 ELSE plock
    /\ rpc' = [rpc EXCEPT ![t] = IdleCall]
    /\ UNCHANGED <<project_root, dirty>>
    /\ UNCHANGED notRpc

\* The paths a frontend hands to open_project: the directories, a path
\* where nothing is, and a regular file.
OpenPaths == Roots \cup {"/missing", "/a/file"}

\* Path::exists
exists(path) == path # "/missing"

\* Path::is_dir
is_dir(path) == path \in Roots

\* open_project without its second check.
open_project_checks_NoDirCheck(path) ==
    IF ~exists(path) THEN "not_found" ELSE "ok"

\* The validation of open_project (project.rs:48-58).
open_project_checks(path) ==
    IF ~exists(path) THEN "not_found"
    ELSE IF ~is_dir(path) THEN "not_found"
    ELSE "ok"

\* open_project(path) begins with its checks of the path, before any lock.
OpenProject(t) ==
    /\ rpc[t].pc = "idle"
    /\ \E path \in OpenPaths :
         rpc' = [rpc EXCEPT ![t] = [pc |-> "io", name |-> "open_project",
                                    scope |-> path, result |-> "none"]]
    /\ UNCHANGED <<project_root, plock, dirty>>
    /\ UNCHANGED notRpc

\* Path::exists, Path::is_dir, find_git_root: the path is a directory or
\* the call ends with not_found.
OpenProjectChecks(t) ==
    /\ rpc[t].pc = "io"
    /\ rpc[t].name = "open_project"
    /\ LET r == open_project_checks(rpc[t].scope)
       IN rpc' = [rpc EXCEPT ![t] =
                    [rpc[t] EXCEPT !.pc = IF r = "ok" THEN "store" ELSE "ret",
                                   !.result = IF r = "ok" THEN "none" ELSE r]]
    /\ UNCHANGED <<project_root, plock, dirty>>
    /\ UNCHANGED notRpc

\* state.project_root.lock(); *project_root = Some(path); Ok(..)
OpenProjectStore(t) ==
    /\ rpc[t].pc = "store"
    /\ plock = 0
    /\ project_root' = rpc[t].scope
    /\ rpc' = [rpc EXCEPT ![t] = [rpc[t] EXCEPT !.pc = "ret", !.result = "ok"]]
    /\ UNCHANGED <<plock, dirty>>
    /\ UNCHANGED notRpc

NextRpc ==
    \/ \E t \in Threads : Lock(t)
    \/ \E t \in Threads : Resolve(t)
    \/ \E t \in Threads : IoRead(t)
    \/ \E t \in Threads : IoWrite(t)
    \/ \E t \in Threads : IoWriteFails(t)
    \/ \E t \in Threads : Return(t)
    \/ \E t \in Threads : OpenProject(t)
    \/ \E t \in Threads : OpenProjectChecks(t)
    \/ \E t \in Threads : OpenProjectStore(t)

SpecRpc == InitRpc /\ [][NextRpc]_vars

\* =================================================================== C14

\* The handler thread t is inside a file operation.
InFileIo(t) == rpc[t].pc = "io"

\* C14: no handler holds the project-root mutex while it performs file I/O:
\* in no reachable state is a handler thread inside a file operation while
\* it owns the mutex.
C14_NoIoUnderLock == \A t \in Threads : InFileIo(t) => plock # t

\* =================================================================== C20

\* The calls that need a project: a project-requiring scope, or
\* ensure_claude_dir.
NeedsProject(c) ==
    \/ c.name \in SettingsRpcs /\ c.scope \in {"project", "local"}
    \/ c.name \in MemoryRpcs /\ c.scope \in {"project", "project_root", "local"}
    \/ c.name \in McpRpcs /\ c.scope = "project"
    \/ c.name \in AgentRpcs \cup SkillRpcs /\ c.scope = "project"
    \/ c.name = "ensure_claude_dir"

\* C20: project gating.  While no project root is set, a call that needs a
\* project returns no_project and reaches no file operation, so it creates,
\* changes or removes no file.
C20_ProjectGating ==
    \A t \in Threads :
      (project_root = "none" /\ NeedsProject(rpc[t])) =>
          /\ rpc[t].pc # "io"
          /\ rpc[t].pc = "ret" => rpc[t].result = "no_project"


\* ================================================ compute_effective_config

\* serde_json::from_str on the texts of Texts: the value, or "parse_error".
from_str(text) ==
    CASE text = "null" -> [err |-> "none", value |-> JNull]
      [] text = "[1]" -> [err |-> "none", value |-> JArr(<<1>>)]
      [] text = "{\"model\":1}" -> [err |-> "none", value |-> Obj1("model", JNum(1))]
      [] text = "{\"model\":[1]}" -> [err |-> "none", value |-> Obj1("model", JArr(<<1>>))]
      [] text = "{\"env\":{\"A\":1}}" ->
           [err |-> "none", value |-> Obj1("env", Obj1("A", JNum(1)))]
      [] text = "{\"env\":{\"A\":null}}" ->
           [err |-> "none", value |-> Obj1("env", Obj1("A", JNull))]
      [] OTHER -> [err |-> "parse_error", value |-> JAbsent]

\* The index of a scope in [user, project, local, managed].
scope_index(scope) == CHOOSE i \in 1..4 : scopes[i] = scope

\* std::fs::read_to_string(&path) and the classification of its outcome
\* (effective.rs:26-44); value JAbsent is Ok(None).
read_file(f) ==
    CASE f.st = "file" -> from_str(f.text)
      [] f.st = "missing" -> [err |-> "none", value |-> JAbsent]
      [] f.st = "denied" -> [err |-> "permission_denied", value |-> JAbsent]

\* read_scope with `Err(e) => return Err(e)` for every error of the resolver.
read_scope_Strict(scope, root) ==
    LET p == resolve_settings_path(scope, root)
    IN IF p \in {"no_project", "platform_error"}
       THEN [err |-> p, value |-> JAbsent]
       ELSE read_file(scope_files[scope_index(scope)])

\* effective.rs read_scope
read_scope(scope, root) ==
    LET p == resolve_settings_path(scope, root)
    IN IF p = "no_project" THEN [err |-> "none", value |-> JAbsent]
       ELSE IF p = "platform_error" THEN [err |-> "none", value |-> JAbsent]
       ELSE read_file(scope_files[scope_index(scope)])

\* A platform, a project open or not, and a file or none at the path of
\* each scope; a scope that has no path has no file.
InitEffective ==
    /\ LockOff
    /\ AtomicOff
    /\ WatchOff
    /\ StoreOff
    /\ target_os \in Platforms
    /\ project_root \in {"none", "/a"}
    /\ plock = 0
    /\ rpc = [t \in Threads |-> [IdleCall EXCEPT !.pc = "off"]]
    /\ dirty = [a \in Areas |-> FALSE]
    /\ scope_files \in [1..4 -> ScopeFileStates]
    /\ project_root = "none" => scope_files[2] = NoFile /\ scope_files[3] = NoFile
    /\ target_os = "windows" => scope_files[4] = NoFile
    /\ eff_ret = "none"
    /\ docs = [i \in 1..4 |-> JAbsent]
    /\ pc = "idle"
    /\ idx = 1
    /\ result = EmptyMap
    /\ sources = EmptyMap
    /\ all_paths = EmptyMap
    /\ overrides = <<>>

\* state.project_root.lock() (effective.rs:57-62).
EffLock ==
    /\ pc = "idle"
    /\ plock = 0
    /\ plock' = 1
    /\ pc' = "read"
    /\ UNCHANGED <<docs, idx, result, sources, all_paths, overrides>>
    /\ UNCHANGED <<project_root, rpc, dirty>>
    /\ UNCHANGED <<atomicVars, watchVars, storeVars, effVars, lockVars>>

\* One of the four read_scope(..)? that gives Ok (effective.rs:64-67).
ReadScope ==
    /\ pc = "read"
    /\ LET r == read_scope(scopes[idx], project_root)
       IN /\ r.err = "none"
          /\ docs' = [docs EXCEPT ![idx] = r.value]
    /\ idx' = IF idx < 4 THEN idx + 1 ELSE 1
    /\ pc' = IF idx < 4 THEN "read" ELSE "merge"
    /\ UNCHANGED <<result, sources, all_paths, overrides>>
    /\ UNCHANGED <<atomicVars, watchVars, storeVars, rpcVars, effVars, lockVars>>

\* One of the four read_scope(..)? that gives Err: the handler returns it
\* and the guard is dropped.
ReadScopeFails ==
    /\ pc = "read"
    /\ LET r == read_scope(scopes[idx], project_root)
       IN /\ r.err # "none"
          /\ eff_ret' = r.err
    /\ pc' = "failed"
    /\ plock' = 0
    /\ UNCHANGED <<docs, idx, result, sources, all_paths, overrides>>
    /\ UNCHANGED <<project_root, rpc, dirty, target_os, scope_files>>
    /\ UNCHANGED <<atomicVars, watchVars, storeVars, lockVars>>

\* serde_json::to_value(&effective) and the return (effective.rs:77-80).
EffReturn ==
    /\ pc = "done"
    /\ eff_ret = "none"
    /\ eff_ret' = "ok"
    /\ plock' = 0
    /\ UNCHANGED mergeVars
    /\ UNCHANGED <<project_root, rpc, dirty, target_os, scope_files>>
    /\ UNCHANGED <<atomicVars, watchVars, storeVars, lockVars>>

NextEffective ==
    \/ EffLock
    \/ ReadScope
    \/ ReadScopeFails
    \/ MergeScope
    \/ SkipScope
    \/ PostPass
    \/ EffReturn

SpecEffective == InitEffective /\ [][NextEffective]_vars

\* ------------------------------------------------------------------ C19

\* The scope has a path: a project is open for project and local, the
\* platform has a managed directory for managed.
HasPath(i) ==
    CASE i = 1 -> TRUE
      [] i \in {2, 3} -> project_root # "none"
      [] i = 4 -> target_os \in {"macos", "linux"}

\* The scope is absent: it has no path, or no file is at its path.
Absent(i) == ~HasPath(i) \/ scope_files[i].st = "missing"

\* The scope is present and its file is a JSON object.
IsObjectScope(i) ==
    /\ ~Absent(i)
    /\ scope_files[i].st = "file"
    /\ scope_files[i].text \in JsonTexts
    /\ is_object(from_str(scope_files[i].text).value)

\* compute_effective over the scopes of S alone, in precedence order.
RECURSIVE fold_only(_, _)
fold_only(S, n) ==
    IF n = 0 THEN [result |-> EmptyMap, sources |-> EmptyMap, all_paths |-> EmptyMap]
    ELSE LET s == fold_only(S, n - 1)
         IN IF n \in S
            THEN merge_object(s.result, from_str(scope_files[n].text).value.o,
                              scopes[n], <<>>, s.sources, s.all_paths, "asc")
            ELSE s

\* Every scope file is missing or valid JSON.
MissingOrValid ==
    \A i \in 1..4 :
        \/ scope_files[i].st = "missing"
        \/ scope_files[i].st = "file" /\ scope_files[i].text \in JsonTexts

\* C19: absent scopes are identity contributions.  compute_effective_config
\* succeeds whenever each of the four scope files is missing or valid JSON,
\* also with no project open and with no managed directory; what it returns
\* is compute_effective over the present scopes that are objects alone (an
\* absent or non-object input changes nothing); with all four absent it
\* returns settings {}, sources {}, overrides [].
C19_AbsentIsIdentity ==
    /\ MissingOrValid => pc # "failed"
    /\ eff_ret = "ok" =>
         LET S == {i \in 1..4 : IsObjectScope(i)}
             f == fold_only(S, 4)
         IN /\ result = f.result
            /\ sources = f.sources
            /\ overrides = compute_overrides(f.all_paths, "asc")
            /\ \A i \in 1..4 : Absent(i) <=> docs[i] = JAbsent
    /\ (eff_ret = "ok" /\ \A i \in 1..4 : Absent(i)) =>
         /\ result = EmptyMap
         /\ sources = EmptyMap
         /\ overrides = <<>>

\* The handler has returned Ok with no project open and no managed
\* directory, the user file an object.
C19_Witness ==
    /\ eff_ret = "ok"
    /\ project_root = "none"
    /\ target_os = "windows"
    /\ scope_files[1] = Text("{\"model\":1}")
    /\ result # EmptyMap

\* The handler has returned Ok with all four scopes absent.
C19_WitnessAllAbsent ==
    /\ eff_ret = "ok"
    /\ \A i \in 1..4 : Absent(i)

\* =================================================================== C21

\* The call of thread t is an open_project that has returned r.
OpenProjectReturned(t, r) ==
    /\ rpc[t].name = "open_project"
    /\ rpc[t].pc = "ret"
    /\ rpc[t].result = r

\* C21: the project-root cell.  In every step the stored project root
\* changes only in an open_project(path) call that succeeds, and then it
\* becomes exactly path, a directory; an open_project with a path that does
\* not exist or is not a directory returns not_found; get_project_info and
\* every other RPC leave the root unchanged.
C21_ProjectRootCell ==
    [][/\ project_root' # project_root =>
            \E t \in Threads :
                /\ rpc[t].name = "open_project"
                /\ rpc'[t].name = "open_project"
                /\ rpc'[t].pc = "ret"
                /\ rpc'[t].result = "ok"
                /\ project_root' = rpc[t].scope
                /\ rpc[t].scope \in Roots
                /\ \A u \in Threads \ {t} : rpc'[u] = rpc[u]
       /\ \A t \in Threads :
            (rpc'[t].name = "open_project" /\ rpc'[t].pc = "ret") =>
                (rpc'[t].result = "not_found" <=> rpc'[t].scope \notin Roots)]_vars

\* An open_project of a directory has succeeded while another project was
\* open, and one of a path that is no directory has returned not_found.
C21_Witness ==
    /\ OpenProjectReturned(1, "ok")
    /\ project_root = rpc[1].scope
    /\ OpenProjectReturned(2, "not_found")
    /\ rpc[2].scope = "/a/file"

\* ================================================================ JSON text

\* The text of a file is a sequence of tokens: punctuation and white space,
\* literals, integers, and strings in their escaped form.
P(s) == [t |-> "p", s |-> s, n |-> 0]
L(s) == [t |-> "lit", s |-> s, n |-> 0]
N(n) == [t |-> "num", s |-> "", n |-> n]
S(s) == [t |-> "str", s |-> s, n |-> 0]

\* format_escaped_str of serde_json on the keys of the model: a quote gets
\* a backslash.
escape(s) ==
    CASE s = "q\"k" -> "q\\\"k"
      [] OTHER -> s

\* The string a parser reads from an escaped form.
unescape(s) ==
    CASE s = "q\\\"k" -> "q\"k"
      [] OTHER -> s

\* PrettyFormatter: two spaces for each level.
indent(lvl) == [i \in 1..lvl |-> P("  ")]

RECURSIVE to_pretty(_, _)
RECURSIVE pretty_members(_, _, _, _)
RECURSIVE pretty_elements(_, _, _)

\* The members of an object, ks the keys still to write.
pretty_members(ks, o, lvl, first) ==
    IF ks = <<>> THEN <<>>
    ELSE (IF first THEN <<>> ELSE <<P(",")>>)
         \o <<P("\n")>> \o indent(lvl)
         \o <<S(escape(Head(ks))), P(":"), P(" ")>>
         \o to_pretty(o[Head(ks)], lvl)
         \o pretty_members(Tail(ks), o, lvl, FALSE)

\* The elements of an array from the i-th on.
pretty_elements(a, i, lvl) ==
    IF i > Len(a) THEN <<>>
    ELSE (IF i = 1 THEN <<>> ELSE <<P(",")>>)
         \o <<P("\n")>> \o indent(lvl) \o <<N(a[i])>>
         \o pretty_elements(a, i + 1, lvl)

\* serde_json::to_vec_pretty: a Map writes its keys in String order.
to_pretty(v, lvl) ==
    CASE v.k = "null" -> <<L("null")>>
      [] v.k = "num" -> <<N(v.n)>>
      [] v.k = "arr" ->
           IF v.a = <<>> THEN <<P("["), P("]")>>
           ELSE <<P("[")>> \o pretty_elements(v.a, 1, lvl + 1)
                \o <<P("\n")>> \o indent(lvl) \o <<P("]")>>
      [] v.k = "obj" ->
           IF DOMAIN v.o = {} THEN <<P("{"), P("}")>>
           ELSE <<P("{")>> \o pretty_members(KeySeq(DOMAIN v.o, "asc"), v.o, lvl + 1, TRUE)
                \o <<P("\n")>> \o indent(lvl) \o <<P("}")>>

to_vec_pretty(v) == to_pretty(v, 0)

\* White space between the tokens of a text means nothing to a parser.
is_ws(tok) == tok.t = "p" /\ tok.s \in {"\n", "  ", " "}
strip_ws(text) == SelectSeq(text, LAMBDA tok : ~is_ws(tok))

ParseFail == [ok |-> FALSE, v |-> JAbsent, next |-> 0]
Parsed(v, next) == [ok |-> TRUE, v |-> v, next |-> next]

IsP(ts, i, s) == i <= Len(ts) /\ ts[i] = P(s)

RECURSIVE parse_value(_, _)
RECURSIVE parse_members(_, _, _)
RECURSIVE parse_elements(_, _, _)

\* The members of an object from token i on, o the members read so far.
parse_members(ts, i, o) ==
    IF i + 1 > Len(ts) \/ ts[i].t # "str" \/ ~IsP(ts, i + 1, ":") THEN ParseFail
    ELSE LET r == parse_value(ts, i + 2)
         IN IF ~r.ok THEN ParseFail
            ELSE LET o2 == MapInsert(o, unescape(ts[i].s), r.v)
                 IN IF IsP(ts, r.next, "}") THEN Parsed(JObj(o2), r.next + 1)
                    ELSE IF IsP(ts, r.next, ",") THEN parse_members(ts, r.next + 1, o2)
                    ELSE ParseFail

\* The elements of an array from token i on, a the elements read so far.
parse_elements(ts, i, a) ==
    IF i > Len(ts) \/ ts[i].t # "num" THEN ParseFail
    ELSE LET a2 == Append(a, ts[i].n)
         IN IF IsP(ts, i + 1, "]") THEN Parsed(JArr(a2), i + 2)
            ELSE IF IsP(ts, i + 1, ",") THEN parse_elements(ts, i + 2, a2)
            ELSE ParseFail

\* One JSON value from token i on.
parse_value(ts, i) ==
    IF i > Len(ts) THEN ParseFail
    ELSE CASE ts[i] = L("null") -> Parsed(JNull, i + 1)
           [] ts[i].t = "num" -> Parsed(JNum(ts[i].n), i + 1)
           [] ts[i] = P("[") ->
                IF IsP(ts, i + 1, "]") THEN Parsed(JArr(<<>>), i + 2)
                ELSE parse_elements(ts, i + 1, <<>>)
           [] ts[i] = P("{") ->
                IF IsP(ts, i + 1, "}") THEN Parsed(JObj(EmptyMap), i + 2)
                ELSE parse_members(ts, i + 1, EmptyMap)
           [] OTHER -> ParseFail

\* serde_json::from_str on a text of tokens: one value and nothing after
\* it, or a parse error.
parse_text(text) ==
    LET ts == strip_ws(text)
        r == parse_value(ts, 1)
    IN IF r.ok /\ r.next = Len(ts) + 1 THEN [err |-> "none", value |-> r.v]
       ELSE [err |-> "parse_error", value |-> JAbsent]

\* ================================================= read/write of settings

\* dirs::home_dir() and resolve_config_dir() with CLAUDE_CONFIG_DIR unset.
HomeDir == "/h"
ConfigDir == "/h/.claude"

\* The directories a project is opened at; the home directory is one.
StoreRoots == {"/h", "/a"}

\* PathBuf::from(root).join(".claude")
claude_dir(root) ==
    CASE root = "/h" -> "/h/.claude"
      [] root = "/a" -> "/a/.claude"
      [] root = "/b" -> "/b/.claude"

WritableScopes == {"user", "project", "local"}

\* The path resolve_settings_path gives when it gives one: the pair of
\* stem and extension, the stem the pair of directory and name.
settings_path(scope, root) ==
    CASE scope = "user" -> << <<ConfigDir, "settings">>, "json" >>
      [] scope = "project" -> << <<claude_dir(root), "settings">>, "json" >>
      [] scope = "local" -> << <<claude_dir(root), "settings.local">>, "json" >>
      [] scope = "managed" ->
           << <<resolve_managed_settings_dir, "managed-settings">>, "json" >>

\* Path::parent
parent(path) == path[1][1]

SettingsPaths == {settings_path(s, r) : s \in WritableScopes, r \in StoreRoots}

\* atomic_write as one step: fs::write fails, fs::rename fails, or both
\* succeed (io/atomic.rs:5-27).
AwOutcomes == {"ok", "write_fails", "rename_fails"}

atomic_write(d, path, content, outcome) ==
    LET tmp == tmp_path(path)
        d1 == [d EXCEPT ![tmp] = File(content)]
    IN CASE outcome = "write_fails" ->
              [disk |-> remove_file(d, tmp), ret |-> "write_failed"]
         [] outcome = "rename_fails" ->
              [disk |-> remove_file(d1, tmp), ret |-> "write_failed"]
         [] outcome = "ok" ->
              [disk |-> rename(d1, tmp, path), ret |-> "ok"]

\* The values a frontend writes: the empty object, a flat one, and one with
\* a nested object, null, arrays and a key that needs escaping.
BigValue == Obj2("env", Obj2("A", JNull, "B", JArr(<<1, 1>>)), "q\"k", JArr(<<>>))
SettingsValues == {JObj(EmptyMap), Obj1("model", JNum(1)), BigValue}

\* A text that is not JSON.
Garbage == <<P("{")>>

\* The scopes whose settings file is at path while root is the project root.
ScopesAt(path, root) ==
    {s \in WritableScopes :
        resolve_settings_path(s, root) # "no_project" /\ settings_path(s, root) = path}

\* Nothing on disk, no project open.
InitSettings ==
    /\ LockOff
    /\ MergeOff
    /\ AtomicOff
    /\ WatchOff
    /\ EffOff
    /\ project_root = "none"
    /\ plock = 0
    /\ rpc = [t \in Threads |-> [IdleCall EXCEPT !.pc = "off"]]
    /\ dirty = [a \in Areas |-> FALSE]
    /\ disk = [p \in SettingsPaths \cup {tmp_path(q) : q \in SettingsPaths} |-> Missing]
    /\ dirs = {}
    /\ call = NoCall
    /\ written = [s \in WritableScopes |-> JAbsent]

\* write_settings(scope, settings) (settings.rs:59-102): the path, the
\* parent directory, the text, atomic_write.
WriteSettings(scope, settings) ==
    LET r == resolve_settings_path(scope, project_root)
        path == settings_path(scope, project_root)
        ret(x) == [name |-> "write_settings", scope |-> scope, result |-> x,
                   value |-> JAbsent]
    IN /\ IF r = "no_project"
          THEN /\ call' = ret(r)
               /\ UNCHANGED <<disk, dirs, written>>
          ELSE \E created \in (IF parent(path) \in dirs THEN {TRUE} ELSE BOOLEAN),
                  outcome \in AwOutcomes :
                 IF ~created
                 THEN /\ call' = ret("write_failed")
                      /\ UNCHANGED <<disk, dirs, written>>
                 ELSE LET w == atomic_write(disk, path, to_vec_pretty(settings), outcome)
                      IN /\ dirs' = dirs \cup {parent(path)}
                         /\ disk' = w.disk
                         /\ call' = ret(w.ret)
                         /\ written' =
                              IF w.ret # "ok" THEN written
                              ELSE [s \in WritableScopes |->
                                      IF s = scope THEN settings
                                      ELSE IF s \in ScopesAt(path, project_root)
                                      THEN JAbsent
                                      ELSE written[s]]
       /\ UNCHANGED rpcVars
       /\ UNCHANGED notStore

\* read_settings(scope) (settings.rs:19-53).
ReadSettings(scope) ==
    LET r == resolve_settings_path(scope, project_root)
        path == settings_path(scope, project_root)
        ret(x, v) == [name |-> "read_settings", scope |-> scope, result |-> x,
                      value |-> v]
    IN /\ call' =
            IF r = "no_project" THEN ret(r, JAbsent)
            ELSE IF ~disk[path].ex THEN ret("ok", JAbsent)
            ELSE LET v == parse_text(disk[path].data)
                 IN IF v.err = "none" THEN ret("ok", v.value) ELSE ret(v.err, JAbsent)
       /\ UNCHANGED <<disk, dirs, written>>
       /\ UNCHANGED rpcVars
       /\ UNCHANGED notStore

\* open_project(path) of a directory (project.rs:43-77).
StoreOpenProject(path) ==
    /\ project_root' = path
    /\ call' = [name |-> "open_project", scope |-> path, result |-> "ok",
                value |-> JAbsent]
    /\ written' = [s \in WritableScopes |-> IF s = "user" THEN written[s] ELSE JAbsent]
    /\ UNCHANGED <<disk, dirs, plock, rpc, dirty>>
    /\ UNCHANGED notStore

\* Another program writes a settings file, or removes it.
OtherWrite(path, f) ==
    /\ disk[path] # f
    /\ disk' = [disk EXCEPT ![path] = f]
    /\ dirs' = IF f.ex THEN dirs \cup {parent(path)} ELSE dirs
    /\ call' = [name |-> "other", scope |-> "none", result |-> "ok", value |-> JAbsent]
    /\ written' = [s \in WritableScopes |->
                     IF s \in ScopesAt(path, project_root) THEN JAbsent ELSE written[s]]
    /\ UNCHANGED rpcVars
    /\ UNCHANGED notStore

NextSettings ==
    \/ \E s \in WritableScopes, v \in SettingsValues : WriteSettings(s, v)
    \/ \E s \in WritableScopes : ReadSettings(s)
    \/ \E path \in StoreRoots : StoreOpenProject(path)
    \/ \E path \in SettingsPaths, f \in {Missing, File(Garbage)} : OtherWrite(path, f)

SpecSettings == InitSettings /\ [][NextSettings]_vars

\* ------------------------------------------------------------------ C22

\* C22: settings round trip.  When write_settings(W, V) has succeeded and
\* neither another write to that file nor an open_project has happened
\* since, read_settings(W) returns V, also when the file or its parent
\* directory did not exist before the write.
C22_SettingsRoundTrip ==
    (call.name = "read_settings" /\ written[call.scope] # JAbsent) =>
        /\ call.result = "ok"
        /\ call.value = written[call.scope]

\* read_settings(local) has returned the value with nested members that a
\* write_settings(local, ..) put there.
C22_Witness ==
    /\ call.name = "read_settings"
    /\ call.scope = "local"
    /\ written["local"] = BigValue
    /\ call.value = BigValue

\* ================================================ read/write of MCP config

\* The path resolve_mcp_path gives when it gives one (mcp.rs:16-46).
mcp_path(source, root) ==
    CASE source = "user" -> << <<HomeDir, ".claude">>, "json" >>
      [] source = "project" -> << <<claude_dir(root), ".mcp">>, "json" >>
      [] source = "managed" -> << <<resolve_managed_settings_dir, "managed-mcp">>, "json" >>

McpSources == {"user", "project", "managed", "plugin"}
McpPaths == {mcp_path("user", "none"), mcp_path("project", "/a")}

\* read_json_file (mcp.rs:49-70): value JAbsent is Ok(None).
read_json_file(f) ==
    IF ~f.ex THEN [err |-> "none", value |-> JAbsent] ELSE parse_text(f.data)

\* config.get("mcpServers").cloned().unwrap_or(json!({})) (mcp.rs:165-168)
servers_of(config) ==
    IF is_object(config) /\ "mcpServers" \in DOMAIN config.o
    THEN config.o["mcpServers"]
    ELSE JObj(EmptyMap)

\* A write that keeps nothing of the existing file.
merge_servers_Replace(existing, config) ==
    JObj(MapInsert(EmptyMap, "mcpServers", servers_of(config)))

\* The object write_mcp_config writes for source user (mcp.rs:154-169):
\* the existing object, or an empty one, with mcpServers replaced.
merge_servers(existing, config) ==
    LET obj == IF is_object(existing) THEN existing.o ELSE EmptyMap
    IN JObj(MapInsert(obj, "mcpServers", servers_of(config)))

\* What a frontend hands in as config.
McpConfigs ==
    { Obj1("mcpServers", Obj1("A", JNum(1))),
      Obj1("mcpServers", JObj(EmptyMap)),
      Obj2("mcpServers", Obj1("B", JNull), "env", JNum(1)),
      JObj(EmptyMap) }

\* What another program leaves in a config file: no file, a text that is
\* not JSON, JSON that is no object, objects with and without mcpServers.
OtherFiles ==
    {Missing, File(Garbage), File(to_vec_pretty(JArr(<<1>>))),
     File(<<P("{"), S("env"), P(":"), P("{"), S("A"), P(":"), N(1), P("}"), P("}")>>),
     File(to_vec_pretty(Obj2("mcpServers", Obj1("B", JNum(1)), "q\"k", JArr(<<1>>))))}

\* The home directory exists; a project is open or not.
InitMcp ==
    /\ LockOff
    /\ MergeOff
    /\ AtomicOff
    /\ WatchOff
    /\ EffOff
    /\ project_root \in {"none", "/a"}
    /\ plock = 0
    /\ rpc = [t \in Threads |-> [IdleCall EXCEPT !.pc = "off"]]
    /\ dirty = [a \in Areas |-> FALSE]
    /\ disk = [p \in McpPaths \cup {tmp_path(q) : q \in McpPaths} |-> Missing]
    /\ dirs = {HomeDir}
    /\ call = NoCall
    /\ written = EmptyMap

\* The return of a write_mcp_config: prior is the file as the call found it.
McpRet(source, config, prior, r) ==
    [name |-> "write_mcp_config", scope |-> source, result |-> r, value |-> config,
     prior |-> prior]

\* write_mcp_config(source, config) (mcp.rs:119-191).
WriteMcpConfig(source, config) ==
    LET r == resolve_mcp_path(source, project_root)
        path == mcp_path(source, project_root)
    IN /\ IF source \notin {"project", "user"}
          THEN /\ call' = McpRet(source, config, Missing, "platform_error")
               /\ UNCHANGED <<disk, dirs>>
          ELSE IF r = "no_project"
          THEN /\ call' = McpRet(source, config, Missing, r)
               /\ UNCHANGED <<disk, dirs>>
          ELSE \E created \in (IF parent(path) \in dirs THEN {TRUE} ELSE BOOLEAN),
                  outcome \in AwOutcomes :
                 LET existing == read_json_file(disk[path])
                     content == IF source = "user"
                                THEN to_vec_pretty(merge_servers(existing.value, config))
                                ELSE to_vec_pretty(config)
                     w == atomic_write(disk, path, content, outcome)
                 IN IF ~created
                    THEN /\ call' = McpRet(source, config, disk[path], "write_failed")
                         /\ UNCHANGED <<disk, dirs>>
                    ELSE IF source = "user" /\ existing.err # "none"
                    THEN /\ call' = McpRet(source, config, disk[path], existing.err)
                         /\ dirs' = dirs \cup {parent(path)}
                         /\ UNCHANGED disk
                    ELSE /\ call' = McpRet(source, config, disk[path], w.ret)
                         /\ dirs' = dirs \cup {parent(path)}
                         /\ disk' = w.disk
       /\ UNCHANGED written
       /\ UNCHANGED rpcVars
       /\ UNCHANGED notStore

\* read_mcp_config(source) (mcp.rs:81-112).
ReadMcpConfig(source) ==
    LET r == resolve_mcp_path(source, project_root)
        ret(x, v) == [name |-> "read_mcp_config", scope |-> source, result |-> x,
                      value |-> v]
    IN /\ source \in {"user", "project"}
       /\ call' =
            IF r = "no_project" THEN ret(r, JAbsent)
            ELSE LET full == read_json_file(disk[mcp_path(source, project_root)])
                 IN IF full.err # "none" THEN ret(full.err, JAbsent)
                    ELSE IF source # "user" \/ full.value = JAbsent
                    THEN ret("ok", full.value)
                    ELSE IF is_object(full.value) /\ "mcpServers" \in DOMAIN full.value.o
                    THEN ret("ok", Obj1("mcpServers", full.value.o["mcpServers"]))
                    ELSE ret("ok", Obj1("mcpServers", JObj(EmptyMap)))
       /\ UNCHANGED <<disk, dirs, written>>
       /\ UNCHANGED rpcVars
       /\ UNCHANGED notStore

\* Another program writes a config file, or removes it.
OtherMcpWrite(path, f) ==
    /\ disk[path] # f
    /\ f.ex => parent(path) \in dirs
    /\ disk' = [disk EXCEPT ![path] = f]
    /\ call' = [name |-> "other", scope |-> "none", result |-> "ok", value |-> JAbsent]
    /\ UNCHANGED <<dirs, written>>
    /\ UNCHANGED rpcVars
    /\ UNCHANGED notStore

NextMcp ==
    \/ \E source \in McpSources, config \in McpConfigs : WriteMcpConfig(source, config)
    \/ \E source \in McpSources : ReadMcpConfig(source)
    \/ \E path \in McpPaths, f \in OtherFiles : OtherMcpWrite(path, f)

SpecMcp == InitMcp /\ [][NextMcp]_vars

\* ------------------------------------------------------------------ C23

\* The last handler was a write_mcp_config with source user.
UserMcpWrite == call.name = "write_mcp_config" /\ call.scope = "user"

\* The value in a file, JAbsent when there is no file or it does not parse.
ValueIn(f) == IF f.ex THEN parse_text(f.data).value ELSE JAbsent

\* C23: write_mcp_config with source user preserves unrelated content.
\* After a successful call the file is a JSON object whose mcpServers is
\* the mcpServers of the supplied config and in which every other top-level
\* key of the prior file is present with its prior value; when the prior
\* file cannot be parsed the call fails with parse_error and the file is
\* unchanged.
C23_McpUserWritePreserves ==
    LET after == disk[mcp_path("user", "none")]
    IN /\ (UserMcpWrite /\ call.result = "ok") =>
            /\ is_object(ValueIn(after))
            /\ "mcpServers" \in DOMAIN ValueIn(after).o
            /\ "mcpServers" \in DOMAIN call.value.o =>
                 ValueIn(after).o["mcpServers"] = call.value.o["mcpServers"]
            /\ \A key \in DOMAIN ValueIn(call.prior).o \ {"mcpServers"} :
                 /\ key \in DOMAIN ValueIn(after).o
                 /\ ValueIn(after).o[key] = ValueIn(call.prior).o[key]
       /\ (UserMcpWrite /\ call.prior.ex /\ parse_text(call.prior.data).err # "none") =>
            /\ call.result = "parse_error"
            /\ after = call.prior

\* A write with source user has succeeded over a file that held other keys
\* and other servers.
C23_Witness ==
    /\ UserMcpWrite
    /\ call.result = "ok"
    /\ {"q\"k", "mcpServers"} \subseteq DOMAIN ValueIn(call.prior).o
    /\ "mcpServers" \in DOMAIN call.value.o
    /\ ValueIn(call.prior).o["mcpServers"] # call.value.o["mcpServers"]

\* A write with source user has failed with parse_error.
C23_WitnessParseError ==
    /\ UserMcpWrite
    /\ call.result = "parse_error"

\* ============================================ agents and skills: the paths

\* A path is the sequence of its components, a component the pair of stem
\* and extension; the component "..":
DotDot == <<"..", "">>

\* A string handed in as filename or directory: absolute or not, and its
\* components.
Rel(comps) == [abs |-> FALSE, comps |-> comps]
Abs(comps) == [abs |-> TRUE, comps |-> comps]

ManagedDirPath == << <<"etc", "">>, <<"claude-code", "">> >>
ManagedSettingsFile == ManagedDirPath \o << <<"managed-settings", "json">> >>
ConfigDirPath == << <<"h", "">>, <<".claude", "">> >>

\* "", "x.md", "s", "../x.md" and "/etc/claude-code/managed-settings.json".
NameArgs ==
    { Rel(<<>>), Rel(<< <<"x", "md">> >>), Rel(<< <<"s", "">> >>),
      Rel(<<DotDot, <<"x", "md">> >>), Abs(ManagedSettingsFile) }

\* resolve_agents_dir / resolve_skills_dir for scope user
\* (agents.rs:18-21, skills.rs:18-21).
base_dir(kind) == ConfigDirPath \o << <<kind, "">> >>

\* PathBuf::join: an absolute argument replaces the base.
join(base, arg) == IF arg.abs THEN arg.comps ELSE base \o arg.comps

Front(p) == SubSeq(p, 1, Len(p) - 1)
Last(p) == p[Len(p)]

\* The entry the operating system reaches by a path: ".." goes to the
\* parent.
RECURSIVE norm(_)
norm(p) ==
    IF p = <<>> THEN <<>>
    ELSE LET q == norm(Front(p))
         IN IF Last(p) = DotDot THEN (IF q = <<>> THEN <<>> ELSE Front(q))
            ELSE Append(q, Last(p))

\* Path::with_extension on a whole path: the last component changes; a
\* path without a file name (it ends in "..") stays as it is.
path_with_extension(p, ext) ==
    IF p = <<>> \/ Last(p) = DotDot THEN p
    ELSE [p EXCEPT ![Len(p)] = with_extension(Last(p), ext)]

\* directory.ends_with(".md")
ends_with_md(arg) == arg.comps # <<>> /\ Last(arg.comps)[2] = "md"

\* The files and directories, and what a handler has created (or written)
\* and removed so far.
Fs(files, ds, created, removed, ret) ==
    [files |-> files, dirs |-> ds, created |-> created, removed |-> removed, ret |-> ret]

exists_at(st, p) == norm(p) \in st.files \cup st.dirs

\* `if !dir.exists() { fs::create_dir_all(&dir)? }`: every prefix of the
\* path becomes a directory, unless one is a file.
create_dir_all(st, p) ==
    LET ps == {norm(SubSeq(p, 1, n)) : n \in 0..Len(p)}
    IN IF exists_at(st, p) THEN st
       ELSE IF ps \cap st.files # {} THEN [st EXCEPT !.ret = "write_failed"]
       ELSE [st EXCEPT !.dirs = @ \cup ps, !.created = @ \cup (ps \ st.dirs)]

\* atomic_write(path, ..) on the files and directories (io/atomic.rs:5-27):
\* fs::write fails on a directory or without a parent directory, fs::rename
\* fails onto a directory.
atomic_write_at(st, p) ==
    LET tmp == norm(path_with_extension(p, "ssenrah-tmp"))
        dest == norm(p)
        can_write == tmp # <<>> /\ tmp \notin st.dirs /\ Front(tmp) \in st.dirs
        can_rename == dest # <<>> /\ dest \notin st.dirs /\ Front(dest) \in st.dirs
    IN IF st.ret # "ok" THEN st
       ELSE IF ~can_write
       THEN [st EXCEPT !.ret = "write_failed",
                       !.files = @ \ {tmp},
                       !.removed = @ \cup ({tmp} \cap st.files)]
       ELSE IF ~can_rename
       THEN [st EXCEPT !.ret = "write_failed",
                       !.files = @ \ {tmp},
                       !.created = @ \cup {tmp},
                       !.removed = @ \cup {tmp}]
       ELSE [st EXCEPT !.files = (@ \ {tmp}) \cup {dest},
                       !.created = @ \cup {tmp, dest},
                       !.removed = @ \cup ({tmp} \ {dest})]

\* p is the directory d or an entry beneath it.
IsUnder(p, d) == Len(p) >= Len(d) /\ SubSeq(p, 1, Len(d)) = d

\* `if !path.exists() { NotFound }`, then fs::remove_dir_all or
\* fs::remove_file (agents.rs:333-340, skills.rs:361-375).
remove_at(st, p, dirs_too) ==
    LET q == norm(p)
        gone == {e \in st.files \cup st.dirs : IsUnder(e, q)}
    IN IF ~exists_at(st, p) THEN [st EXCEPT !.ret = "not_found"]
       ELSE IF q \in st.dirs
       THEN IF dirs_too
            THEN [st EXCEPT !.files = @ \ gone, !.dirs = @ \ gone,
                            !.removed = @ \cup gone]
            ELSE [st EXCEPT !.ret = "write_failed"]
       ELSE [st EXCEPT !.files = @ \ {q}, !.removed = @ \cup {q}]

\* The state a handler starts from.
Start == Fs(disk, dirs, {}, {}, "ok")

\* write_agent(user, filename, ..) (agents.rs:270-313)
write_agent(filename) ==
    LET dir == base_dir("agents")
        s1 == create_dir_all(Start, dir)
    IN atomic_write_at(s1, join(dir, filename))

\* delete_agent(user, filename) (agents.rs:315-343)
delete_agent(filename) == remove_at(Start, join(base_dir("agents"), filename), FALSE)

\* write_skill(user, directory, ..) (skills.rs:285-335)
write_skill(directory) ==
    LET base == base_dir("skills")
        skill_dir == IF ends_with_md(directory) THEN base ELSE join(base, directory)
        skill_path == IF ends_with_md(directory) THEN join(base, directory)
                      ELSE join(skill_dir, Rel(<< <<"SKILL", "md">> >>))
    IN atomic_write_at(create_dir_all(Start, skill_dir), skill_path)

\* write_skill_file(user, directory, filename, ..) (skills.rs:413-448)
write_skill_file(directory, filename) ==
    LET skill_dir == join(base_dir("skills"), directory)
    IN atomic_write_at(create_dir_all(Start, skill_dir), join(skill_dir, filename))

\* delete_skill(user, directory) (skills.rs:338-378)
delete_skill(directory) == remove_at(Start, join(base_dir("skills"), directory), TRUE)

\* The managed directory with its settings file, and the configuration
\* directory of the user.
InitConfine ==
    /\ LockOff
    /\ MergeOff
    /\ AtomicOff
    /\ WatchOff
    /\ EffOff
    /\ RpcOff
    /\ disk = {ManagedSettingsFile}
    /\ dirs = {SubSeq(ManagedDirPath, 1, n) : n \in 0..2}
              \cup {SubSeq(ConfigDirPath, 1, n) : n \in 0..2}
    /\ call = [name |-> "none", scope |-> "none", result |-> "none", value |-> <<>>,
               base |-> <<>>, created |-> {}, removed |-> {}, count |-> 0]
    /\ written = EmptyMap

\* A handler runs: name, the directory it resolved, its arguments and its
\* effect st; count is the number of handlers that have run.
Ran(name, kind, args, st) ==
    /\ call.count < MaxCalls
    /\ disk' = st.files
    /\ dirs' = st.dirs
    /\ call' = [name |-> name, scope |-> "user", result |-> st.ret, value |-> args,
                base |-> base_dir(kind), created |-> st.created, removed |-> st.removed,
                count |-> call.count + 1]
    /\ UNCHANGED written
    /\ UNCHANGED rpcVars
    /\ UNCHANGED notStore

WriteAgent(filename) == Ran("write_agent", "agents", <<filename>>, write_agent(filename))
DeleteAgent(filename) == Ran("delete_agent", "agents", <<filename>>, delete_agent(filename))
WriteSkill(directory) == Ran("write_skill", "skills", <<directory>>, write_skill(directory))
WriteSkillFile(directory, filename) ==
    Ran("write_skill_file", "skills", <<directory, filename>>,
        write_skill_file(directory, filename))
DeleteSkill(directory) == Ran("delete_skill", "skills", <<directory>>, delete_skill(directory))

NextConfine ==
    \/ \E f \in NameArgs : WriteAgent(f)
    \/ \E f \in NameArgs : DeleteAgent(f)
    \/ \E d \in NameArgs : WriteSkill(d)
    \/ \E d \in NameArgs, f \in NameArgs : WriteSkillFile(d, f)
    \/ \E d \in NameArgs : DeleteSkill(d)

SpecConfine == InitConfine /\ [][NextConfine]_vars

\* ------------------------------------------------------------------ C30

StrictlyInside(p, d) == IsUnder(p, d) /\ p # d

\* C30: agent and skill operations are confined to their directory.  For
\* every string given as filename or directory, write_agent, delete_agent,
\* write_skill, write_skill_file and delete_skill create, modify or remove
\* only entries strictly inside the resolved agents or skills directory
\* (the directory itself and its ancestors may be created); delete_skill
\* never removes the skills directory itself.
C30_Confined ==
    call.name # "none" =>
        /\ \A p \in call.created :
             StrictlyInside(p, call.base) \/ IsUnder(call.base, p)
        /\ \A p \in call.removed : StrictlyInside(p, call.base)

\* ------------------------------------------------------------------ C24

\* C24: the managed scope is read-only.  No handler, whatever its
\* arguments, creates, modifies or deletes the managed settings file.
C24_ManagedReadOnly ==
    call.name # "none" =>
        ManagedSettingsFile \notin call.created \cup call.removed


\* =============================================== agent files: frontmatter

\* A String is the sequence of its characters.  The values of a
\* frontmatter: strings, integers, booleans, arrays of strings, null, and
\* the floats the reader can give back.
FStr(s) == [k |-> "str", s |-> s, n |-> 0, a |-> <<>>]
FInt(n) == [k |-> "int", s |-> <<>>, n |-> n, a |-> <<>>]
FBool(b) == [k |-> "bool", s |-> <<>>, n |-> IF b THEN 1 ELSE 0, a |-> <<>>]
FArr(items) == [k |-> "arr", s |-> <<>>, n |-> 0, a |-> items]
FNull == [k |-> "null", s |-> <<>>, n |-> 0, a |-> <<>>]
FFloat(s) == [k |-> "float", s |-> s, n |-> 0, a |-> <<>>]

Dashes == <<"-", "-", "-">>
TrueText == <<"t", "r", "u", "e">>
FalseText == <<"f", "a", "l", "s", "e">>
Digits == <<"0", "1", "2", "3", "4", "5", "6", "7", "8", "9">>

\* char::is_whitespace
WhiteSpace == {" ", "\n", "\r", "\t"}

\* str::trim_start_matches(set)
RECURSIVE trim_start_matches(_, _)
trim_start_matches(s, set) ==
    IF s # <<>> /\ Head(s) \in set THEN trim_start_matches(Tail(s), set) ELSE s

\* str::trim_end_matches(set)
RECURSIVE trim_end_matches(_, _)
trim_end_matches(s, set) ==
    IF s # <<>> /\ s[Len(s)] \in set
    THEN trim_end_matches(SubSeq(s, 1, Len(s) - 1), set)
    ELSE s

\* str::trim_matches(c)
trim_matches(s, c) == trim_end_matches(trim_start_matches(s, {c}), {c})

\* str::trim_start, str::trim
trim_start(s) == trim_start_matches(s, WhiteSpace)
trim(s) == trim_end_matches(trim_start(s), WhiteSpace)

\* str::starts_with, str::ends_with
starts_with(s, p) == Len(s) >= Len(p) /\ SubSeq(s, 1, Len(p)) = p
ends_with(s, p) == Len(s) >= Len(p) /\ SubSeq(s, Len(s) - Len(p) + 1, Len(s)) = p

\* str::find: the byte offset of the first match, -1 for None.
find(s, p) ==
    LET hits == {i \in 0..(Len(s) - Len(p)) : SubSeq(s, i + 1, i + Len(p)) = p}
    IN IF hits = {} THEN -1 ELSE CHOOSE i \in hits : \A j \in hits : i <= j

\* &s[i..]
from(s, i) == SubSeq(s, i + 1, Len(s))

\* str::split(c)
RECURSIVE split(_, _)
split(s, c) ==
    LET i == find(s, <<c>>)
    IN IF i = -1 THEN <<s>> ELSE <<SubSeq(s, 1, i)>> \o split(from(s, i + 1), c)

\* str::lines: the lines without their line endings; no last empty line.
RECURSIVE lines(_)
lines(s) ==
    IF s = <<>> THEN <<>>
    ELSE LET i == find(s, <<"\n">>)
             line == IF i = -1 THEN s ELSE SubSeq(s, 1, i)
             bare == IF i # -1 /\ ends_with(line, <<"\r">>)
                     THEN SubSeq(line, 1, Len(line) - 1) ELSE line
         IN IF i = -1 THEN <<bare>> ELSE <<bare>> \o lines(from(s, i + 1))

\* [String].join(sep)
RECURSIVE join_with(_, _)
join_with(items, sep) ==
    IF items = <<>> THEN <<>>
    ELSE IF Len(items) = 1 THEN items[1]
    ELSE items[1] \o sep \o join_with(Tail(items), sep)

is_digits(s) == s # <<>> /\ \A i \in 1..Len(s) : s[i] \in {Digits[d] : d \in 1..10}

\* The number a run of digits reads as.
RECURSIVE digits_value(_)
digits_value(s) ==
    IF s = <<>> THEN 0
    ELSE 10 * digits_value(SubSeq(s, 1, Len(s) - 1))
         + ((CHOOSE d \in 1..10 : Digits[d] = s[Len(s)]) - 1)

unsigned(s) == IF s # <<>> /\ Head(s) \in {"+", "-"} THEN Tail(s) ELSE s

\* str::parse::<i64> succeeds; the texts of the model are far shorter than
\* the 19 digits where it overflows.
is_i64(s) == is_digits(unsigned(s))

parse_i64(s) ==
    IF Head(s) = "-" THEN 0 - digits_value(unsigned(s)) ELSE digits_value(unsigned(s))

\* Display for i64
RECURSIVE fmt_nat(_)
fmt_nat(n) == IF n < 10 THEN <<Digits[n + 1]>> ELSE fmt_nat(n \div 10) \o <<Digits[(n % 10) + 1]>>

fmt_i64(n) == IF n < 0 THEN <<"-">> \o fmt_nat(0 - n) ELSE fmt_nat(n)

\* str::parse::<f64> succeeds on a decimal: digits with at most one point
\* and at least one digit, then an optional exponent.
is_decimal(s) ==
    LET u == unsigned(s)
        e == IF find(u, <<"e">>) # -1 THEN find(u, <<"e">>) ELSE find(u, <<"E">>)
        mant == IF e = -1 THEN u ELSE SubSeq(u, 1, e)
        dot == find(mant, <<".">>)
        whole == IF dot = -1 THEN mant ELSE SubSeq(mant, 1, dot)
        frac == IF dot = -1 THEN <<>> ELSE from(mant, dot + 1)
    IN /\ whole \o frac # <<>>
       /\ is_digits(whole \o frac)
       /\ e # -1 => is_digits(unsigned(from(u, e + 1)))

\* str::parse::<f64> succeeds on a name of infinity or of no number;
\* json!() of such an f64 is null.
is_nonfinite(s) ==
    unsigned(s) \in {<<"i", "n", "f">>, <<"n", "a", "n">>,
                     <<"i", "n", "f", "i", "n", "i", "t", "y">>}

\* The value of one "key: value" line (agents.rs:85-128).
parse_yaml_value(value) ==
    IF value = <<>> THEN FNull
    ELSE IF starts_with(value, <<"[">>) /\ ends_with(value, <<"]">>)
    THEN LET inner == SubSeq(value, 2, Len(value) - 1)
             parts == split(inner, ",")
         IN FArr([i \in 1..Len(parts) |->
                    trim_matches(trim_matches(trim(parts[i]), "\""), "'")])
    ELSE IF value = TrueText THEN FBool(TRUE)
    ELSE IF value = FalseText THEN FBool(FALSE)
    ELSE IF is_i64(value) THEN FInt(parse_i64(value))
    ELSE IF is_decimal(value) THEN FFloat(value)
    ELSE IF is_nonfinite(value) THEN FNull
    ELSE FStr(trim_matches(trim_matches(value, "\""), "'"))

\* parse_yaml_simple: the loop over the lines ls, map the entries so far.
RECURSIVE parse_yaml_lines(_, _)
parse_yaml_lines(ls, map) ==
    IF ls = <<>> THEN map
    ELSE LET line == trim(Head(ls))
             colon == find(line, <<":">>)
         IN IF line = <<>> \/ starts_with(line, <<"#">>) \/ colon = -1
            THEN parse_yaml_lines(Tail(ls), map)
            ELSE parse_yaml_lines(Tail(ls),
                     MapInsert(map, trim(SubSeq(line, 1, colon)),
                               parse_yaml_value(trim(from(line, colon + 1)))))

parse_yaml_simple(yaml) == parse_yaml_lines(lines(yaml), EmptyMap)

\* parse_frontmatter (agents.rs:40-67)
parse_frontmatter(content) ==
    LET trimmed == trim_start(content)
        after_first == trim_start_matches(from(trimmed, 3), {"\r", "\n"})
        end_idx == find(after_first, <<"\n">> \o Dashes)
        body_start == end_idx + 4
    IN IF ~starts_with(trimmed, Dashes) \/ end_idx = -1
       THEN [frontmatter |-> EmptyMap, body |-> content]
       ELSE [frontmatter |-> parse_yaml_simple(SubSeq(after_first, 1, end_idx)),
             body |-> IF body_start < Len(after_first)
                      THEN trim_start_matches(from(after_first, body_start), {"\r", "\n"})
                      ELSE <<>>]

\* The text of one value (agents.rs:141-153); the values are of the four
\* supported kinds or null.
serialize_value(v) ==
    CASE v.k = "str" -> v.s
      [] v.k = "bool" -> IF v.n = 1 THEN TrueText ELSE FalseText
      [] v.k = "int" -> fmt_i64(v.n)
      [] v.k = "arr" -> <<"[">> \o join_with(v.a, <<",", " ">>) \o <<"]">>

\* The keys of a frontmatter in the order the map gives them: "k" before
\* "n" or after it.
FmKeySeq(keys, ord) ==
    IF keys = {} THEN <<>>
    ELSE IF Cardinality(keys) = 1 THEN <<CHOOSE x \in keys : TRUE>>
    ELSE IF ord = "asc" THEN << <<"k">>, <<"n">> >> ELSE << <<"n">>, <<"k">> >>

\* serialize_frontmatter (agents.rs:136-166): the lines of the keys ks.
RECURSIVE serialize_lines(_, _)
serialize_lines(ks, obj) ==
    IF ks = <<>> THEN <<>>
    ELSE LET key == Head(ks)
         IN (IF obj[key].k = "null" THEN <<>>
             ELSE << key \o <<":", " ">> \o serialize_value(obj[key]) >>)
            \o serialize_lines(Tail(ks), obj)

serialize_frontmatter(obj, ord) ==
    join_with(serialize_lines(FmKeySeq(DOMAIN obj, ord), obj), <<"\n">>)

\* The text write_agent writes (agents.rs:300-305).
agent_content(frontmatter, body, ord) ==
    LET fm == serialize_frontmatter(frontmatter, ord)
    IN IF fm = <<>> THEN body
       ELSE Dashes \o <<"\n">> \o fm \o <<"\n">> \o Dashes \o <<"\n", "\n">> \o body

\* ------------------------------------------------ write_agent, read_agent

AgentScopes == {"user", "project"}

\* resolve_agents_dir (agents.rs:16-33) when it gives a directory; the
\* project that is open is the home directory.
agents_dir(scope, root) ==
    CASE scope = "user" -> "/h/.claude/agents"
      [] scope = "project" /\ root = "/h" -> "/h/.claude/agents"

\* dir.join(&filename) for the file name x.md.
agent_path(scope, root) == << <<agents_dir(scope, root), "x">>, "md" >>

AgentFile == agent_path("user", "none")

\* The frontmatter values and the frontmatters a frontend writes.
FmValues ==
    { FStr(<<"a">>), FStr(TrueText), FStr(<<"1">>), FStr(<<>>), FInt(12),
      FBool(FALSE), FArr(<< <<"a">>, <<"b">> >>), FArr(<<>>) }

Frontmatters ==
    {EmptyMap} \cup {<<"k">> :> v : v \in FmValues}
    \cup {(<<"k">> :> FInt(12)) @@ (<<"n">> :> FStr(<<"a">>))}

\* The bodies: plain, with a leading space, starting with a line break,
\* starting with a line of dashes, starting with a whole block of dashes.
DashLine == Dashes \o <<"\n", "x">>
DashBlock == Dashes \o <<"\n", "k", ":", " ", "a", "\n">> \o Dashes \o <<"\n", "x">>
Bodies == {<<>>, <<"x">>, <<" ", "x">>, <<"\n", "x">>, DashLine, DashBlock}

NoDoc == [ok |-> FALSE, frontmatter |-> EmptyMap, body |-> <<>>]
Doc(fm, body) == [ok |-> TRUE, frontmatter |-> fm, body |-> body]

\* No agent file on disk; the home directory is open as the project or no
\* project is.  written is what the last write_agent that succeeded wrote.
InitAgent ==
    /\ LockOff
    /\ MergeOff
    /\ AtomicOff
    /\ WatchOff
    /\ EffOff
    /\ project_root \in {"none", "/h"}
    /\ plock = 0
    /\ rpc = [t \in Threads |-> [IdleCall EXCEPT !.pc = "off"]]
    /\ dirty = [a \in Areas |-> FALSE]
    /\ disk = [p \in {AgentFile, tmp_path(AgentFile)} |-> Missing]
    /\ dirs = {}
    /\ call = [name |-> "none", scope |-> "none", result |-> "none", value |-> NoDoc]
    /\ written = NoDoc

\* write_agent(scope, "x.md", frontmatter, body) (agents.rs:272-313); ord
\* is the order the frontmatter map gives its keys in.
WriteAgentFile(scope, frontmatter, body) ==
    LET path == agent_path(scope, project_root)
        ret(x) == [name |-> "write_agent", scope |-> scope, result |-> x,
                   value |-> NoDoc]
    IN /\ IF scope = "project" /\ project_root = "none"
          THEN /\ call' = ret("no_project")
               /\ UNCHANGED <<disk, dirs, written>>
          ELSE \E created \in (IF parent(path) \in dirs THEN {TRUE} ELSE BOOLEAN),
                  outcome \in AwOutcomes, ord \in Orders :
                 IF ~created
                 THEN /\ call' = ret("write_failed")
                      /\ UNCHANGED <<disk, dirs, written>>
                 ELSE LET w == atomic_write(disk, path,
                                   agent_content(frontmatter, body, ord), outcome)
                      IN /\ dirs' = dirs \cup {parent(path)}
                         /\ disk' = w.disk
                         /\ call' = ret(w.ret)
                         /\ written' = IF w.ret # "ok" THEN written
                                       ELSE Doc(frontmatter, body)
       /\ UNCHANGED rpcVars
       /\ UNCHANGED notStore

\* read_agent(scope, "x.md") (agents.rs:234-268)
ReadAgent(scope) ==
    LET path == agent_path(scope, project_root)
        ret(x, v) == [name |-> "read_agent", scope |-> scope, result |-> x,
                      value |-> v]
    IN /\ call' =
            IF scope = "project" /\ project_root = "none" THEN ret("no_project", NoDoc)
            ELSE IF ~disk[path].ex THEN ret("not_found", NoDoc)
            ELSE LET r == parse_frontmatter(disk[path].data)
                 IN ret("ok", Doc(r.frontmatter, r.body))
       /\ UNCHANGED <<disk, dirs, written>>
       /\ UNCHANGED rpcVars
       /\ UNCHANGED notStore

NextAgent ==
    \/ \E s \in AgentScopes, fm \in Frontmatters, body \in Bodies :
          WriteAgentFile(s, fm, body)
    \/ \E s \in AgentScopes : ReadAgent(s)

SpecAgent == InitAgent /\ [][NextAgent]_vars

\* ------------------------------------------------------------------ C25

\* A value read back is the value written, or the reading of a written
\* string as a boolean, a number or null.
Coerced(v, w) ==
    \/ w = v
    \/ v.k = "str" /\ w.k \in {"bool", "int", "float", "null"}

\* C25: agent round trip.  read_agent after a successful write_agent of
\* frontmatter fm and body returns a body identical to body and a
\* frontmatter with the keys of fm, each value the one written up to the
\* type coercions of the reader; this includes the empty fm and a body
\* that starts with line breaks or with a line of dashes.
C25_AgentRoundTrip ==
    (call.name = "read_agent" /\ call.result # "no_project" /\ written.ok) =>
        /\ call.result = "ok"
        /\ call.value.body = written.body
        /\ DOMAIN call.value.frontmatter = DOMAIN written.frontmatter
        /\ \A key \in DOMAIN written.frontmatter :
             Coerced(written.frontmatter[key], call.value.frontmatter[key])

\* ======================================== the write handlers, step by step

\* Mutex::lock returns at once.
can_lock_Always(m) == TRUE

\* Mutex::lock returns when no thread holds the mutex m.
can_lock(m) == m = 0

\* resolve_memory_path (memory.rs:17-48) when it gives a path.
memory_path(scope, root) ==
    CASE scope = "user" -> << <<ConfigDir, "CLAUDE">>, "md" >>
      [] scope = "project" -> << <<claude_dir(root), "CLAUDE">>, "md" >>
      [] scope = "local" -> << <<claude_dir(root), "CLAUDE.local">>, "md" >>

\* The write calls of the run and the path each writes; the project that
\* is opened is the home directory, where the files of the scopes user and
\* project are the same.
SerialCalls == {"write_settings", "write_memory"} \X {"user", "project"}

SerialRoots == {HomeDir}

dest_path(name, scope, root) ==
    IF name = "write_settings" THEN settings_path(scope, root)
    ELSE memory_path(scope, root)

SerialPaths == {dest_path(c[1], c[2], r) : c \in SerialCalls, r \in SerialRoots}

NoPath == << <<"none", "none">>, "none" >>

\* What a call writes: bytes no other call writes, named by the thread
\* and by whether its count of calls is odd.
Bytes(t, k) == <<t, k>>

\* No call under way; the home directory or nothing is open; no file.
InitSerial ==
    /\ LockOff
    /\ MergeOff
    /\ AtomicOff
    /\ WatchOff
    /\ EffOff
    /\ project_root \in {"none"} \cup SerialRoots
    /\ plock = 0
    /\ rpc = [t \in Threads |->
                [pc |-> "idle", name |-> "none", scope |-> "none", result |-> "none",
                 path |-> NoPath, k |-> 0]]
    /\ dirty = [a \in Areas |-> FALSE]
    /\ disk = [p \in SerialPaths \cup {tmp_path(q) : q \in SerialPaths} |-> Missing]
    /\ dirs = {}
    /\ call = [name |-> "none", scope |-> "none", result |-> "none",
               value |-> Missing, bytes |-> <<>>]
    /\ written = EmptyMap

\* state.project_root.lock() at the head of a write handler
\* (settings.rs:65-70, memory.rs:87-92).
WriteLock(t) ==
    /\ rpc[t].pc = "idle"
    /\ can_lock(plock)
    /\ plock' = t
    /\ \E c \in SerialCalls :
         rpc' = [rpc EXCEPT ![t] = [pc |-> "locked", name |-> c[1], scope |-> c[2],
                                    result |-> "none", path |-> NoPath,
                                    k |-> 1 - rpc[t].k]]
    /\ UNCHANGED <<project_root, dirty, storeVars>>
    /\ UNCHANGED notStore

\* The path and its parent directory (settings.rs:79-90,
\* memory.rs:94-105): no project, create_dir_all fails, or atomic_write
\* is entered.
WriteResolve(t) ==
    /\ rpc[t].pc = "locked"
    /\ LET c == rpc[t]
           r == IF c.name = "write_settings"
                THEN resolve_settings_path(c.scope, project_root)
                ELSE resolve_memory_path(c.scope, project_root)
       IN IF r = "no_project"
          THEN rpc' = [rpc EXCEPT ![t] = [c EXCEPT !.pc = "ret", !.result = r]]
          ELSE \E created \in BOOLEAN :
                 rpc' = [rpc EXCEPT ![t] =
                    IF created
                    THEN [c EXCEPT !.pc = "aw",
                                   !.path = dest_path(c.name, c.scope, project_root)]
                    ELSE [c EXCEPT !.pc = "ret", !.result = "write_failed"]]
    /\ UNCHANGED <<project_root, plock, dirty, storeVars>>
    /\ UNCHANGED notStore

\* fs::write(&tmp_path, content) (atomic.rs:9-16)
AwWriteTmp(t) ==
    /\ rpc[t].pc = "aw"
    /\ LET tmp == tmp_path(rpc[t].path)
       IN \E ok \in BOOLEAN :
            IF ok
            THEN /\ disk' = [disk EXCEPT ![tmp] = File(Bytes(t, rpc[t].k))]
                 /\ rpc' = [rpc EXCEPT ![t] = [rpc[t] EXCEPT !.pc = "tmp"]]
            ELSE /\ disk' = remove_file(disk, tmp)
                 /\ rpc' = [rpc EXCEPT ![t] =
                              [rpc[t] EXCEPT !.pc = "ret", !.result = "write_failed"]]
    /\ UNCHANGED <<project_root, plock, dirty, dirs, call, written>>
    /\ UNCHANGED notStore

\* fs::rename(&tmp_path, path) (atomic.rs:18-26); call keeps what the
\* rename has published and the bytes of the call that renamed.
AwRenameTmp(t) ==
    /\ rpc[t].pc = "tmp"
    /\ LET path == rpc[t].path
           tmp == tmp_path(path)
       IN \E ok \in BOOLEAN :
            IF ok
            THEN /\ disk' = rename(disk, tmp, path)
                 /\ rpc' = [rpc EXCEPT ![t] = [rpc[t] EXCEPT !.pc = "ret", !.result = "ok"]]
                 /\ call' = [name |-> rpc[t].name, scope |-> rpc[t].scope,
                             result |-> "ok", value |-> disk'[path],
                             bytes |-> Bytes(t, rpc[t].k)]
            ELSE /\ disk' = remove_file(disk, tmp)
                 /\ rpc' = [rpc EXCEPT ![t] =
                              [rpc[t] EXCEPT !.pc = "ret", !.result = "write_failed"]]
                 /\ UNCHANGED call
    /\ UNCHANGED <<project_root, plock, dirty, dirs, written>>
    /\ UNCHANGED notStore

\* The handler returns and its guard is dropped.
WriteReturn(t) ==
    /\ rpc[t].pc = "ret"
    /\ plock' = IF plock = t THEN 0 ELSE plock
    /\ rpc' = [rpc EXCEPT ![t] = [rpc[t] EXCEPT !.pc = "idle"]]
    /\ UNCHANGED <<project_root, dirty, storeVars>>
    /\ UNCHANGED notStore

\* open_project(path) of a directory: state.project_root.lock() and the
\* store (project.rs:63-70).
SerialOpenProject(path) ==
    /\ can_lock(plock)
    /\ project_root # path
    /\ project_root' = path
    /\ UNCHANGED <<plock, rpc, dirty, storeVars>>
    /\ UNCHANGED notStore

NextSerial ==
    \/ \E t \in Threads : WriteLock(t)
    \/ \E t \in Threads : WriteResolve(t)
    \/ \E t \in Threads : AwWriteTmp(t)
    \/ \E t \in Threads : AwRenameTmp(t)
    \/ \E t \in Threads : WriteReturn(t)
    \/ \E path \in SerialRoots : SerialOpenProject(path)

SpecSerial == InitSerial /\ [][NextSerial]_vars

\* ------------------------------------------------------------------ C26

\* The thread is inside atomic_write.
InAtomicWrite(t) == rpc[t].pc \in {"aw", "tmp"}

\* C26: write RPCs are serialized within one process.  From before its
\* path resolution until after atomic_write a write handler holds the
\* mutex of the project root; no two calls of atomic_write overlap; between
\* a call's write of the temp file and its rename the temp file holds the
\* bytes of that call; a rename publishes the bytes of its own call.
C26_WritesSerialized ==
    /\ \A t \in Threads : rpc[t].pc \in {"locked", "aw", "tmp"} => plock = t
    /\ \A t, u \in Threads : (InAtomicWrite(t) /\ InAtomicWrite(u)) => t = u
    /\ \A t \in Threads :
         rpc[t].pc = "tmp" => disk[tmp_path(rpc[t].path)] = File(Bytes(t, rpc[t].k))
    /\ call.result = "ok" => call.value = File(call.bytes)

\* Thread 2 has written the temp file of a settings file that holds what a
\* call of thread 1 published, and has not renamed it yet.
C26_Witness ==
    /\ rpc[2].pc = "tmp"
    /\ rpc[2].name = "write_settings"
    /\ disk[rpc[2].path].ex
    /\ disk[rpc[2].path].data[1] = 1
    /\ disk[tmp_path(rpc[2].path)] = File(Bytes(2, rpc[2].k))

\* ============================================================ the mutexes

\* The handlers of the run: the two of the watcher, and two that take
\* State<AppState>.
LockHandlers == {"subscribe_file_changes", "unsubscribe_file_changes",
                 "open_project", "write_settings"}

\* open_project taking the mutex of the watcher inside its guard.
locks_of_Nested(name) ==
    CASE name = "subscribe_file_changes" -> <<"watcher", "root">>
      [] name = "unsubscribe_file_changes" -> <<"watcher">>
      [] name = "callback" -> <<"self_writes">>
      [] name = "open_project" -> <<"root", "watcher">>
      [] OTHER -> <<"root">>

\* The mutexes a handler or the callback takes, in the order it takes
\* them; each guard lives until the handler or the lookup loop of the
\* callback ends (watcher.rs:18, 38, 59; debounce.rs:24; project.rs:64-70;
\* settings.rs:65-70).
locks_of(name) ==
    CASE name = "subscribe_file_changes" -> <<"watcher", "root">>
      [] name = "unsubscribe_file_changes" -> <<"watcher">>
      [] name = "callback" -> <<"self_writes">>
      [] OTHER -> <<"root">>

\* The mutex the thread takes next.
next_lock(t) == locks_of(th[t].name)[th[t].held + 1]

\* No handler and no callback under way, no mutex held.
InitLocks ==
    /\ MergeOff
    /\ AtomicOff
    /\ WatchOff
    /\ RpcOff
    /\ EffOff
    /\ StoreOff
    /\ holder = [m \in Mutexes |-> 0]
    /\ th = [t \in LockThreads |-> NoJob]
    /\ started = 0

\* A handler begins on a thread of the pool, or notify calls the callback
\* with an event.
Begin(t) ==
    /\ th[t].pc = "idle"
    /\ started < MaxCalls
    /\ started' = started + 1
    /\ \E name \in (IF t \in CallbackThreads THEN {"callback"} ELSE LockHandlers) :
         th' = [th EXCEPT ![t] = [pc |-> "acq", name |-> name, held |-> 0]]
    /\ UNCHANGED holder
    /\ UNCHANGED <<mergeVars, atomicVars, watchVars, rpcVars, effVars, storeVars>>

\* Mutex::lock returns: the thread holds the mutex.
Acquire(t) ==
    /\ th[t].pc = "acq"
    /\ can_lock(holder[next_lock(t)])
    /\ holder' = [holder EXCEPT ![next_lock(t)] = t]
    /\ th' = [th EXCEPT ![t] = [th[t] EXCEPT !.pc = "io", !.held = th[t].held + 1]]
    /\ UNCHANGED started
    /\ UNCHANGED <<mergeVars, atomicVars, watchVars, rpcVars, effVars, storeVars>>

\* What the thread does under the guards it has: its file operations
\* return (DebouncedWatcher::new and the watches, the lookups of the
\* callback, the resolution and the write), then it takes its next mutex or
\* is at its end.  DebouncedWatcher::new may fail, which ends subscribe.
Io(t) ==
    /\ th[t].pc = "io"
    /\ \E fails \in (IF th[t].name = "subscribe_file_changes" /\ th[t].held = 1
                     THEN BOOLEAN ELSE {FALSE}) :
         th' = [th EXCEPT ![t] =
                  [th[t] EXCEPT !.pc = IF ~fails /\ th[t].held < Len(locks_of(th[t].name))
                                       THEN "acq" ELSE "ret"]]
    /\ UNCHANGED <<holder, started>>
    /\ UNCHANGED <<mergeVars, atomicVars, watchVars, rpcVars, effVars, storeVars>>

\* The handler returns and its guards are dropped; the callback returns on
\* a suppressed path, or drop(sw) and the events are still to emit.
Finish(t) ==
    /\ th[t].pc = "ret"
    /\ holder' = [m \in Mutexes |-> IF holder[m] = t THEN 0 ELSE holder[m]]
    /\ \E suppressed \in (IF th[t].name = "callback" THEN BOOLEAN ELSE {TRUE}) :
         th' = [th EXCEPT ![t] = IF suppressed THEN NoJob
                                 ELSE [th[t] EXCEPT !.pc = "emit", !.held = 0]]
    /\ UNCHANGED started
    /\ UNCHANGED <<mergeVars, atomicVars, watchVars, rpcVars, effVars, storeVars>>

\* app.emit("file_change", ..) for each path; the callback returns.
Emit(t) ==
    /\ th[t].pc = "emit"
    /\ th' = [th EXCEPT ![t] = NoJob]
    /\ UNCHANGED <<holder, started>>
    /\ UNCHANGED <<mergeVars, atomicVars, watchVars, rpcVars, effVars, storeVars>>

\* What one thread does once it has begun.
Step(t) == Acquire(t) \/ Io(t) \/ Finish(t) \/ Emit(t)

NextLocks ==
    \/ \E t \in LockThreads : Begin(t)
    \/ \E t \in LockThreads : Acquire(t)
    \/ \E t \in LockThreads : Io(t)
    \/ \E t \in LockThreads : Finish(t)
    \/ \E t \in LockThreads : Emit(t)

SpecLocks == InitLocks /\ [][NextLocks]_vars

\* Every thread that can go on does: the pool and notify run their
\* threads, and a file operation returns.
SpecLocksFair == SpecLocks /\ \A t \in LockThreads : WF_vars(Step(t))

\* ------------------------------------------------------------------ C27

\* The thread whose mutex t waits for, or 0.
waits_for(t) == IF th[t].pc = "acq" THEN holder[next_lock(t)] ELSE 0

\* From u, following who waits for whom at most n times, t is met.
RECURSIVE WaitsOn(_, _, _)
WaitsOn(t, u, n) ==
    /\ n > 0
    /\ waits_for(u) # 0
    /\ \/ waits_for(u) = t
       \/ WaitsOn(t, waits_for(u), n - 1)

NoCircularWait == \A t \in LockThreads : ~WaitsOn(t, t, Cardinality(LockThreads))

\* The order of the mutexes: nothing takes the mutex of the watcher while
\* it holds the mutex of the project root, and the callback holds no mutex
\* but that of self_writes and none while it emits.
LockOrder ==
    /\ \A t \in LockThreads :
         (th[t].pc = "acq" /\ next_lock(t) = "watcher") => holder["root"] # t
    /\ \A t \in CallbackThreads :
         /\ holder["watcher"] # t /\ holder["root"] # t
         /\ th[t].pc = "emit" => holder["self_writes"] # t

\* C27: no deadlock among the three mutexes.  subscribe_file_changes takes
\* the mutex of the watcher and then that of the project root, no handler
\* takes the mutex of the watcher while it holds that of the project root,
\* the callback takes only the mutex of self_writes and has released it
\* when it emits; no threads wait for each other in a circle, and every
\* handler and callback that has begun returns.
C27_NoDeadlock ==
    /\ [](NoCircularWait /\ LockOrder)
    /\ \A t \in LockThreads : (th[t].pc # "idle") ~> (th[t].pc = "idle")

\* subscribe_file_changes on thread 1 holds the mutex of the watcher and
\* waits for the mutex of the project root, which a handler on thread 2
\* holds, while the callback holds the mutex of self_writes.
C27_Witness ==
    /\ th[1].name = "subscribe_file_changes"
    /\ th[1].pc = "acq"
    /\ holder["watcher"] = 1
    /\ holder["root"] = 2
    /\ holder["self_writes"] = 3

\* =================================================================== C28

\* The key sequences that spell the path p.
LocsAt(p) == {l \in AllLocs : LocPath(l) = p}

C28_Body(o) ==
    /\ o.path \in DOMAIN sources
    /\ o.effective_scope = sources[o.path]
    /\ IF is_null(o.effective_value)
       THEN \A l \in LocsAt(o.path) : At(Settings, l) = JAbsent
       ELSE \E l \in LocsAt(o.path) : At(Settings, l) = o.effective_value

\* C28: override records agree with the merged result.  For every record
\* of overrides, effective_scope is sources[path]; when effective_value is
\* null the path is absent from settings, otherwise the value of settings
\* at the path is effective_value.
C28_OverridesAgree ==
    pc = "done" => \A j \in 1..Len(overrides) : C28_Body(overrides[j])

\* ================================================= the scope of an event

\* A path as path.display() gives it: the sequence of its chunks.  Every
\* text detect_scope looks for is a run of whole chunks, and no chunk holds
\* one of them inside it.

\* std::path::MAIN_SEPARATOR
sep == IF target_os = "windows" THEN "\\" ELSE "/"

\* PathBuf::join of a relative name
join_text(base, name) == base \o <<sep>> \o name

\* dirs::home_dir()
home_text ==
    CASE target_os = "linux" -> <<"/", "home", "/", "u">>
      [] target_os = "macos" -> <<"/", "Users", "/", "u">>
      [] target_os = "windows" -> <<"C:", "\\", "Users", "\\", "u">>

\* PathBuf::from(root): the home directory opened as a project, or a
\* directory beside it.
root_text(root) ==
    CASE root = "/h" -> home_text
      [] root = "/a" -> SubSeq(home_text, 1, Len(home_text) - 1) \o <<"a">>
      [] root = "/b" -> SubSeq(home_text, 1, Len(home_text) - 1) \o <<"b">>

\* resolve_managed_settings_dir (paths.rs:34-44) as a text
managed_dir_text ==
    IF target_os = "macos"
    THEN <<"/", "Library", "/", "Application Support", "/", "ClaudeCode">>
    ELSE <<"/", "etc", "/", "claude-code">>

\* resolve_settings_path (paths.rs:51-84) when it gives a path, with
\* CLAUDE_CONFIG_DIR not set.
settings_text(scope, root) ==
    CASE scope = "user" ->
           join_text(join_text(home_text, <<".claude">>), <<"settings", ".json">>)
      [] scope = "project" ->
           join_text(join_text(root_text(root), <<".claude">>), <<"settings", ".json">>)
      [] scope = "local" ->
           join_text(join_text(root_text(root), <<".claude">>),
                     <<"settings", ".local", ".json">>)
      [] scope = "managed" ->
           join_text(managed_dir_text, <<"managed", "-settings", ".json">>)

\* str::contains
contains(s, p) == find(s, p) # -1

\* detect_scope (debounce.rs:75-86)
detect_scope(path_str) ==
    IF contains(path_str, <<"settings", ".local", ".json">>)
       \/ contains(path_str, <<"CLAUDE", ".local", ".md">>)
    THEN "local"
    ELSE IF contains(path_str, <<".claude", "/">>) \/ contains(path_str, <<".claude", "\\">>)
    THEN "project"
    ELSE IF contains(path_str, <<"managed">>)
    THEN "managed"
    ELSE "user"

ScopeRoots == {"/h", "/a", "/b"}
NotifyKinds == {"Create", "Modify", "Remove", "Access"}

\* No event yet; any platform; no project open.
InitScope ==
    /\ LockOff
    /\ MergeOff
    /\ AtomicOff
    /\ WatchOff
    /\ target_os \in Platforms
    /\ scope_files = [i \in 1..4 |-> NoFile]
    /\ eff_ret = "off"
    /\ project_root = "none"
    /\ plock = 0
    /\ rpc = [t \in Threads |-> [IdleCall EXCEPT !.pc = "off"]]
    /\ dirty = [a \in Areas |-> FALSE]
    /\ disk = EmptyMap
    /\ dirs = {}
    /\ call = [name |-> "none", scope |-> "none", result |-> "none", value |-> <<>>,
               kind |-> "none"]
    /\ written = EmptyMap

\* open_project(path) of a directory (project.rs:43-77).
ScopeOpenProject(path) ==
    /\ project_root # path
    /\ project_root' = path
    /\ UNCHANGED <<plock, rpc, dirty, storeVars>>
    /\ UNCHANGED notStore

\* The callback of the watcher gets an event of kind k for the settings
\* file of scope s (debounce.rs:34-51): for a kind that is reported it
\* emits file_change with the path, the kind and detect_scope(path).
FileChange(s, k) ==
    /\ resolve_settings_path(s, project_root) \notin {"no_project", "platform_error"}
    /\ call' = IF kind_name(k) = "none"
               THEN [name |-> "no_event", scope |-> s, result |-> "none",
                     value |-> <<>>, kind |-> "none"]
               ELSE [name |-> "file_change", scope |-> s,
                     result |-> detect_scope(settings_text(s, project_root)),
                     value |-> settings_text(s, project_root),
                     kind |-> kind_name(k)]
    /\ UNCHANGED <<disk, dirs, written>>
    /\ UNCHANGED rpcVars
    /\ UNCHANGED notStore

NextScope ==
    \/ \E path \in ScopeRoots : ScopeOpenProject(path)
    \/ \E s \in {"user", "project", "local", "managed"}, k \in NotifyKinds :
          FileChange(s, k)

SpecScope == InitScope /\ [][NextScope]_vars

\* ------------------------------------------------------------------ C29

\* C29: the scope of an event agrees with the path resolver.  A
\* file_change event for the settings file that resolve_settings_path gives
\* for the scope s, with the configuration directory at {home}/.claude,
\* carries scope = s.
C29_EventScopeAgrees ==
    call.name = "file_change" => call.result = call.scope

====
